---- MODULE Spec2Model ----
(***************************************************************************)
(* dborbit / dbtool: the migration runner (dbtool/migrations/runner.py),   *)
(* its file discovery (dbtool/migrations/reader.py), the history table     *)
(* (dbtool/history.py) and the session it runs in (dbtool/driver.py);      *)
(* the schema comparisons schema_diff (dborbit/schema.py) and diff         *)
(* (dbtool/schema/diff.py); apply_schema (dbtool/schema/apply.py); the     *)
(* bootstrap loops of dborbit (dborbit/cli.py) and bootstrap_mariadb.py    *)
(* with their bookkeeping tables; the statement splitters statements       *)
(* (dborbit/schema.py) and _statements (bootstrap_mariadb.py); normalize   *)
(* and the fingerprint maps built with it; generate (dbtool/generate.py).  *)
(*                                                                         *)
(* Text is modelled as a sequence of one-character strings, so that the    *)
(* regular expressions and string comparisons of the code are computed     *)
(* character by character.                                                 *)
(***************************************************************************)
EXTENDS Integers, Sequences, FiniteSets, TLC

\* ------------------------------------------------------------------ bounds
\* Largest number of files in the migration directory.
MaxFiles == 2

\* The two migrate runs: two processes, each calling migrate once, at any
\* time (one after the other has returned, or while it is still running).
Runs == {1, 2}

\* --------------------------------------------------------------- characters
\* The characters used, in code-point order (Python compares str by code point).
Ascii ==
  << " ", "-", ".", "0", "1", "2", ";",
     "A", "B", "C", "D", "E", "F", "G", "H", "I", "J", "K", "L", "M",
     "N", "O", "P", "Q", "R", "S", "T", "U", "V", "W", "X", "Y", "Z",
     "_",
     "a", "b", "c", "d", "e", "f", "g", "h", "i", "j", "k", "l", "m",
     "n", "o", "p", "q", "r", "s", "t", "u", "v", "w", "x", "y", "z" >>

Ord(c) == CHOOSE i \in 1..Len(Ascii) : Ascii[i] = c

Digits == {"0", "1", "2"}
UpperLetters == {Ascii[i] : i \in 8..33}
LowerLetters == {Ascii[i] : i \in 35..60}

\* str.upper() / str.lower() on one character
Upper(c) == IF c \in LowerLetters THEN Ascii[Ord(c) - 27] ELSE c
Lower(c) == IF c \in UpperLetters THEN Ascii[Ord(c) + 27] ELSE c

LowerStr(s) == [i \in 1..Len(s) |-> Lower(s[i])]
UpperStr(s) == [i \in 1..Len(s) |-> Upper(s[i])]

\* Python's `a < b` on str: lexicographic by code point, a proper prefix is smaller.
RECURSIVE StrLess(_, _)
StrLess(a, b) ==
  IF b = <<>> THEN FALSE
  ELSE IF a = <<>> THEN TRUE
  ELSE IF Ord(a[1]) # Ord(b[1]) THEN Ord(a[1]) < Ord(b[1])
  ELSE StrLess(Tail(a), Tail(b))

StrGreater(a, b) == StrLess(b, a)

Slice(s, i, j) == SubSeq(s, i, j)

\* ------------------------------------------------------ reader._MIGR_RE
\* ^(V|R)([0-9A-Za-z_.-]*?)__(.+?)\.sql$   with re.IGNORECASE
VersionChars == Digits \cup UpperLetters \cup LowerLetters \cup {"_", ".", "-"}

\* The positions i at which the version group may end (it is name[2..i]):
\* the prefix letter, version characters only, "__", a non-empty description
\* and ".sql" at the end.
MigrEnds(name) ==
  { i \in 1..Len(name) :
      /\ Upper(name[1]) \in {"V", "R"}
      /\ \A k \in 2..i : name[k] \in VersionChars
      /\ i + 2 <= Len(name)
      /\ name[i + 1] = "_" /\ name[i + 2] = "_"
      /\ i + 3 <= Len(name) - 4
      /\ LowerStr(Slice(name, Len(name) - 3, Len(name))) = <<".", "s", "q", "l">> }

MigrMatches(name) == MigrEnds(name) # {}

\* The version group is lazy: it ends at the first position that lets the
\* rest of the pattern match.
MigrEnd(name) == CHOOSE i \in MigrEnds(name) : \A j \in MigrEnds(name) : i <= j

MigrGroups(name) ==
  [ prefix      |-> name[1],
    version     |-> Slice(name, 2, MigrEnd(name)),
    description |-> Slice(name, MigrEnd(name) + 3, Len(name) - 4) ]

\* pathlib's PurePath.suffix: the text from the last dot on,
\* empty when the only dot leads the name or ends it.
Suffix(name) ==
  LET dots == { i \in 2..Len(name) : name[i] = "." }
  IN  IF dots = {} THEN <<>>
      ELSE LET d == CHOOSE i \in dots : \A j \in dots : j <= i
           IN  IF d = Len(name) THEN <<>> ELSE Slice(name, d, Len(name))

\* ------------------------------------------------------ history.calculate_checksum
\* SHA-256 of the text: deterministic, and distinct texts have distinct digests.
calculate_checksum(sql) == <<"sha256", sql>>

\* ------------------------------------------------------ reader.MigrationFile
MigrationFile(name, sql) ==
  LET g == MigrGroups(name)
  IN  [ name        |-> name,
        version     |-> g.version,
        description |-> g.description,
        repeatable  |-> (Upper(g.prefix) = "R"),
        sql         |-> sql,
        checksum    |-> calculate_checksum(sql) ]

\* MigrationFile.ordering_key: (1 if repeatable else 0, version)
ordering_key_by_description(mf) == << (IF mf.repeatable THEN 1 ELSE 0), mf.description >>
ordering_key(mf) == << (IF mf.repeatable THEN 1 ELSE 0), mf.version >>

\* Python's tuple comparison a <= b on ordering keys
KeyLeq(a, b) ==
  \/ a[1] < b[1]
  \/ a[1] = b[1] /\ ~StrLess(b[2], a[2])

\* ------------------------------------------------------ runner._DROP_RE
\* \bDROP\b with re.IGNORECASE; a word character is [A-Za-z0-9_].
WordChars == Digits \cup UpperLetters \cup LowerLetters \cup {"_"}

DropSearch(sql) ==
  \E i \in 1..Len(sql) :
    /\ i + 3 <= Len(sql)
    /\ UpperStr(Slice(sql, i, i + 3)) = <<"D", "R", "O", "P">>
    /\ (i = 1 \/ sql[i - 1] \notin WordChars)
    /\ (i + 3 = Len(sql) \/ sql[i + 4] \notin WordChars)

\* ------------------------------------------------------ utils.split_sql
\* str.strip(): blanks and line ends are taken off
RECURSIVE LStrip(_)
LStrip(s) == IF s # <<>> /\ s[1] \in {" ", "\n"} THEN LStrip(Tail(s)) ELSE s
RECURSIVE RStrip(_)
RStrip(s) ==
  IF s # <<>> /\ s[Len(s)] \in {" ", "\n"} THEN RStrip(Slice(s, 1, Len(s) - 1)) ELSE s
Strip(s) == LStrip(RStrip(s))

\* The length of the "--" comment s begins with, its line end included
SingleComment(s) ==
  LET ends == { i \in 1..Len(s) : s[i] = "\n" }
  IN  IF ends = {} THEN Len(s) ELSE CHOOSE i \in ends : \A j \in ends : i <= j

\* sqlparse.split on the texts used here: a statement ends at its ";", and
\* a "--" comment runs to the end of its line, a ";" in it ending nothing.
\* (None of the texts has a comment behind a ";" on the same line.)
RECURSIVE SqlparseSplit(_, _)
SqlparseSplit(s, cur) ==
  IF s = <<>> THEN (IF cur = <<>> THEN <<>> ELSE <<cur>>)
  ELSE IF Len(s) >= 2 /\ s[1] = "-" /\ s[2] = "-"
  THEN SqlparseSplit(Slice(s, SingleComment(s) + 1, Len(s)),
                     cur \o Slice(s, 1, SingleComment(s)))
  ELSE IF s[1] = ";" THEN <<Append(cur, ";")>> \o SqlparseSplit(Tail(s), <<>>)
  ELSE SqlparseSplit(Tail(s), Append(cur, s[1]))

\* [s.strip() for s in sqlparse.split(sql) if s.strip()]
split_sql(sql) ==
  LET parts == SqlparseSplit(sql, <<>>)
      keep  == SelectSeq(parts, LAMBDA p : Strip(p) # <<>>)
  IN  [i \in 1..Len(keep) |-> Strip(keep[i])]

\* ------------------------------------------------------ the inputs
\* Python's None (a version of a repeatable row, an absent target)
None == <<"None">>

\* bool(x) of an optional str: None and "" are false
Truthy(x) == x # None /\ x # <<>>

\* File names
N_V1     == <<"V", "1", "_", "_", "i", "n", "i", "t", ".", "s", "q", "l">>
N_V10    == <<"V", "1", "0", "_", "_", "a", "d", "d", "_", "c", "o", "l", ".", "s", "q", "l">>
N_V2     == <<"V", "2", "_", "_", "a", "d", "d", "_", "i", "n", "d", "e", "x", ".", "s", "q", "l">>
N_R      == <<"R", "_", "_", "v", ".", "s", "q", "l">>
N_V1x    == <<"V", "1", "_", "_", "x", ".", "s", "q", "l">>
N_Vempty == <<"V", "_", "_", "e", ".", "s", "q", "l">>
N_notes  == <<"n", "o", "t", "e", "s", ".", "s", "q", "l">>

\* File contents
T_a      == <<"a">>
T_ab     == <<"a", ";", "b">>
T_DROP   == <<"D", "R", "O", "P", " ", "t">>
T_drop   == <<"b", ";", "d", "r", "o", "p", " ", "t", ";">>
T_DROPS  == <<"D", "R", "O", "P", "S">>
T_x_DROP == <<"x", "_", "D", "R", "O", "P", ";", "a">>

\* The files a migration directory is drawn from
Catalogue ==
  { [name |-> N_V1,     sql |-> T_a],
    [name |-> N_V10,    sql |-> T_ab],
    [name |-> N_V2,     sql |-> T_DROP],
    [name |-> N_R,      sql |-> T_x_DROP],
    [name |-> N_V1x,    sql |-> T_drop],
    [name |-> N_Vempty, sql |-> T_DROPS],
    [name |-> N_notes,  sql |-> T_a] }

\* A directory holds at most one file of a name.
Directories ==
  { d \in SUBSET Catalogue :
      /\ Cardinality(d) \in 1..MaxFiles
      /\ \A f, g \in d : f.name = g.name => f = g }

\* The values of migrate's target argument
Targets == {None, <<"1">>}

\* ------------------------------------------------------ reader.discover
\* The files of the directory that discover keeps
Discovered(d) ==
  { MigrationFile(p.name, p.sql) :
      p \in { q \in d : LowerStr(Suffix(q.name)) = <<".", "s", "q", "l">>
                        /\ MigrMatches(q.name) } }

\* sorted(items, key=ordering_key): sorted() is stable and iterdir() yields the
\* files in any order, so files of equal key come in any order.
discover(d) ==
  LET items == Discovered(d)
      n     == Cardinality(items)
  IN  { s \in [1..n -> items] :
          /\ \A i, j \in 1..n : i # j => s[i] # s[j]
          /\ \A i, j \in 1..n : i < j => KeyLeq(ordering_key(s[i]), ordering_key(s[j])) }

\* ------------------------------------------------------ the state
VARIABLES
  dir,             \* the migration directory: a set of [name, sql]
  history,         \* committed rows of the schema-history table
  txn,             \* txn[r]: rows inserted by r's session and not yet committed
  nextRank,        \* the AUTO_INCREMENT counter of installed_rank
  lock,            \* the session holding the named lock, 0 when free
  invocations,     \* migrate invocations started so far
  pc,              \* pc[r]: where run r is in migrate
  args,            \* dry_run, target, allow_destructive: the flags of the runs
  files,           \* files[r]: the list discover returned
  already_applied, \* already_applied[r]: the set read at line 70
  idx,             \* idx[r]: position of the loop in files[r]
  stmts,           \* stmts[r]: statements exec_multi has still to execute
  exc,             \* exc[r]: the exception raised in r, "none" when there is none
  obs,             \* obs[r]: what r's current (or last) invocation did
  report,          \* what the last call of status returned
  file_map,        \* dborbit: table -> fingerprint, from the schema file
  db_map,          \* dborbit: table -> fingerprint, from the database
  sd,              \* dborbit: what schema_diff returned
  current,         \* dbtool: table -> DDL text of the live database
  desired,         \* dbtool: table -> DDL text of the schema files
  sql_changes,     \* dbtool: what diff returned
  ap,              \* dbtool: what the last call of apply_schema did
  schema_file,     \* bootstrap: schema_file[s], the schema file of service s
  database,        \* bootstrap: database[s], the tables of the database of s
                   \* and the hash recorded in its bookkeeping table
  boot,            \* bootstrap: the invocations of bootstrap and their loop
  script,          \* splitter: the text of the SQL script
  split            \* splitter: what the splitters made of it

\* The variables of migrate
migrateVars == << dir, history, txn, nextRank, lock, invocations, pc, args, files,
                  already_applied, idx, stmts, exc, obs >>

\* The variables of the schema comparisons
schemaVars == << file_map, db_map, sd, current, desired, sql_changes >>

\* The variables of the operations other than migrate
\* The variables of the operations that change a schema
moreVars == << ap, schema_file, database, boot, script, split >>

toolVars == << report, schemaVars, moreVars >>

vars == << dir, history, txn, nextRank, lock, invocations, pc, args, files,
           already_applied, idx, stmts, exc, obs, toolVars >>

NoObs ==
  [ inv       |-> 0,        \* number of the invocation
    overlap   |-> FALSE,    \* it started while another run was in migrate
    acquired  |-> FALSE,    \* GET_LOCK returned 1
    released  |-> FALSE,    \* RELEASE_LOCK was executed
    dry       |-> FALSE,    \* the run is a dry run
    entered   |-> <<>>,     \* names _apply_single was called with, in order
    rendered  |-> <<>>,     \* names whose SQL a dry run printed, in order
    executed  |-> <<>>,     \* names exec_multi was called for, in order
    completed |-> <<>>,     \* names whose statements all succeeded, in order
    nstmt     |-> 0,        \* migration-file statements sent to the server
    ninsert   |-> 0,        \* history rows inserted
    failed    |-> <<>>,     \* the file a statement of which the server rejected
    errfile   |-> <<>> ]    \* the file the error message names

\* No call of status yet
NoReport ==
  [ calls    |-> 0,        \* calls of status so far
    applied  |-> <<>>,     \* the list returned under "applied"
    pending  |-> <<>>,     \* the list returned under "pending"
    mismatch |-> <<>>,     \* the list returned under "mismatch"
    files    |-> <<>>,     \* the list discover returned to status
    rows     |-> {},       \* the rows status read
    over     |-> {} ]      \* the runs that were over when status was called

\* A dict without keys
EmptyMap == [t \in {} |-> <<>>]

\* No call of schema_diff yet
NoSchemaDiff == [calls |-> 0, new |-> <<>>, missing |-> <<>>, altered |-> <<>>]

\* No call of diff yet
NoChanges ==
  [ calls   |-> 0,
    lines   |-> <<>>,      \* the list returned
    created |-> <<>>,      \* the tables in the order the first loop took them
    removed |-> <<>>,      \* the same for the second loop
    altered |-> <<>> ]     \* the same for the third loop, tables that differ only

\* No call of apply_schema yet
NoApply ==
  [ calls    |-> 0,
    stmts    |-> <<>>,     \* the list calc_diff returned
    echoed   |-> FALSE,    \* the list was printed
    live     |-> EmptyMap, \* the tables of the database when the call began
    auto_approve |-> FALSE, \* the flag the call was made with
    prompted |-> FALSE,    \* click.confirm was called
    confirmed |-> FALSE,   \* and the operator answered yes
    executed |-> <<>>,     \* the statements sent to the server by exec_multi
    ensured  |-> FALSE,    \* ensure_history_table was called
    recorded |-> FALSE,    \* record_success inserted the schema-sync row
    result   |-> "none" ]  \* how the call ended

\* The services of the manifest, in the order of services.items()
ServiceList == <<1, 2>>
Services == { ServiceList[i] : i \in DOMAIN ServiceList }


\* No schema file: the service has no path, or the path is not a file
NoFile == [is_file |-> FALSE, tables |-> EmptyMap, other |-> FALSE]

\* What one loop iteration did for its service
NoIteration ==
  [ outcome   |-> "none",   \* the branch the iteration ended in
    recorded  |-> <<"unread">>, \* the hash recorded for the file when it began
    file_hash |-> <<"unread">>, \* the hash of the file it computed
    empty     |-> FALSE,    \* the database had no table when it began
    executed  |-> <<>>,     \* the statements of the file sent to the server
    failed    |-> FALSE,    \* the server rejected one of them
    diffed    |-> FALSE,    \* the comparison of file and database was computed
    stored    |-> FALSE ]   \* the hash of the file was recorded

\* No bootstrap yet
NoBoot ==
  [ runs     |-> 0,                              \* invocations so far
    pc       |-> "idle",                         \* "idle", "loop", "raised"
    todo     |-> <<>>,                           \* services the loop has still to take
    it       |-> [s \in Services |-> NoIteration],  \* this invocation's iterations
    applied  |-> {},                             \* services whose file was imported and recorded
    rerun    |-> {},                             \* ... and sent to the server again later
    checked  |-> 0 ]                             \* the service schema_diff was called for
                                                 \* after the loop, if that was the last call

\* The schema handling has not been used.
BootIdle ==
  /\ schema_file = [s \in Services |-> NoFile]
  /\ database = [s \in Services |-> [tables |-> EmptyMap, row |-> None, rows |-> 0]]
  /\ boot = NoBoot

\* No call of the splitters yet
NoSplit ==
  [ calls |-> 0,
    statements |-> <<>>,           \* what statements(sql) yielded, in order
    stripped |-> <<>>,             \* what _strip_comments(sql) returned
    mariadb_statements |-> <<>> ]  \* what _statements(sql) yielded, in order

\* The splitters have not been used.
SplitIdle ==
  /\ script = <<>>
  /\ split = NoSplit

\* The operations that change a schema have not been used.
MoreIdle ==
  /\ ap = NoApply
  /\ BootIdle
  /\ SplitIdle

\* The operations other than migrate have not been used.
ToolsIdle ==
  /\ report = NoReport
  /\ file_map = EmptyMap /\ db_map = EmptyMap /\ sd = NoSchemaDiff
  /\ current = EmptyMap /\ desired = EmptyMap /\ sql_changes = NoChanges
  /\ MoreIdle

Init ==
  /\ ToolsIdle
  /\ dir \in Directories
  /\ history = {}
  /\ txn = [r \in Runs |-> {}]
  /\ nextRank = 1
  /\ lock = 0
  /\ invocations = 0
  /\ pc = [r \in Runs |-> "idle"]
  /\ args \in [dry_run : BOOLEAN, target : Targets, allow_destructive : BOOLEAN]
  /\ files = [r \in Runs |-> <<>>]
  /\ already_applied = [r \in Runs |-> {}]
  /\ idx = [r \in Runs |-> 1]
  /\ stmts = [r \in Runs |-> <<>>]
  /\ exc = [r \in Runs |-> "none"]
  /\ obs = [r \in Runs |-> NoObs]

\* ------------------------------------------------------ migrate
\* The finally clause of migrate: however the try block is left, RELEASE_LOCK
\* is executed next.
TryExitNoFinally(e) == IF e = "none" THEN "release" ELSE "close"
TryExit(e) == "release"

\* The lock request precedes the try block: when it fails the RuntimeError
\* leaves migrate without passing through the finally clause.
LockFailureInsideTry(e) == "release"
LockFailureExit(e) == "close"

\* GET_LOCK(name, 10) returns 1 when no other session holds the lock.
GetLockAlways(r) == TRUE
GetLockGranted(r) == lock \in {0, r}

\* migrate up to the lock request: discover, open the session, ensure_history_table.
\* CREATE TABLE IF NOT EXISTS finds the table and changes nothing.
Start(r) ==
  /\ pc[r] = "idle"
  /\ invocations' = invocations + 1
  /\ \E fs \in discover(dir) : files' = [files EXCEPT ![r] = fs]
  /\ already_applied' = [already_applied EXCEPT ![r] = {}]
  /\ idx' = [idx EXCEPT ![r] = 1]
  /\ stmts' = [stmts EXCEPT ![r] = <<>>]
  /\ exc' = [exc EXCEPT ![r] = "none"]
  /\ obs' = [obs EXCEPT ![r] = [NoObs EXCEPT !.inv = invocations + 1,
                                             !.dry = args.dry_run,
                                             !.overlap = (\E q \in Runs \ {r} : pc[q] \notin {"idle", "done"})]]
  /\ pc' = [pc EXCEPT ![r] = "get_lock"]
  /\ UNCHANGED << dir, toolVars, history, txn, nextRank, lock, args >>

\* SELECT GET_LOCK(...): 1, and the try block is entered
GetLock(r) ==
  /\ pc[r] = "get_lock"
  /\ GetLockGranted(r)
  /\ lock' = r
  /\ obs' = [obs EXCEPT ![r].acquired = TRUE]
  /\ pc' = [pc EXCEPT ![r] = "load"]
  /\ UNCHANGED << dir, toolVars, history, txn, nextRank, invocations, args, files,
                  already_applied, idx, stmts, exc >>

\* SELECT GET_LOCK(...): the wait ran out while another session held the lock;
\* RuntimeError is raised before the try block.
GetLockTimeout(r) ==
  /\ pc[r] = "get_lock"
  /\ ~GetLockGranted(r)
  /\ exc' = [exc EXCEPT ![r] = "lock"]
  /\ pc' = [pc EXCEPT ![r] = LockFailureExit("lock")]
  /\ UNCHANGED << dir, toolVars, history, txn, nextRank, lock, invocations, args, files,
                  already_applied, idx, stmts, obs >>

\* The rows a consistent read of session r sees
Visible(r) == history \cup txn[r]

\* SELECT version FROM history; {row[0] for row in rows if row[0]}
LoadApplied(r) ==
  /\ pc[r] = "load"
  /\ already_applied' = [already_applied EXCEPT ![r] =
        { row.version : row \in { w \in Visible(r) : Truthy(w.version) } }]
  /\ idx' = [idx EXCEPT ![r] = 1]
  /\ pc' = [pc EXCEPT ![r] = "versioned"]
  /\ UNCHANGED << dir, toolVars, history, txn, nextRank, lock, invocations, args, files,
                  stmts, exc, obs >>

\* The first loop of migrate from position i on: the position of the next file
\* handed to _apply_single, 0 when the loop ends (exhausted or break).
RECURSIVE NextVersionedNoSkip(_, _, _, _)
NextVersionedNoSkip(fs, i, target, applied) ==
  IF i > Len(fs) THEN 0
  ELSE IF Truthy(target) /\ StrGreater(fs[i].version, target) THEN 0
  ELSE IF fs[i].version \in applied THEN NextVersionedNoSkip(fs, i + 1, target, applied)
  ELSE i
RECURSIVE NextVersionedExclusive(_, _, _, _)
NextVersionedExclusive(fs, i, target, applied) ==
  IF i > Len(fs) THEN 0
  ELSE IF fs[i].repeatable THEN NextVersionedExclusive(fs, i + 1, target, applied)
  ELSE IF Truthy(target) /\ ~StrLess(fs[i].version, target) THEN 0
  ELSE IF fs[i].version \in applied THEN NextVersionedExclusive(fs, i + 1, target, applied)
  ELSE i
RECURSIVE NextVersioned(_, _, _, _)
NextVersioned(fs, i, target, applied) ==
  IF i > Len(fs) THEN 0
  ELSE IF fs[i].repeatable THEN NextVersioned(fs, i + 1, target, applied)
  ELSE IF Truthy(target) /\ StrGreater(fs[i].version, target) THEN 0
  ELSE IF fs[i].version \in applied THEN NextVersioned(fs, i + 1, target, applied)
  ELSE i

\* The second loop of migrate from position i on
RECURSIVE NextRepeatable(_, _)
NextRepeatable(fs, i) ==
  IF i > Len(fs) THEN 0
  ELSE IF ~fs[i].repeatable THEN NextRepeatable(fs, i + 1)
  ELSE i

\* The DROP guard of _apply_single
DropGuardCaseSensitive(mf, allow_destructive) ==
  /\ ~allow_destructive
  /\ \E i \in 1..Len(mf.sql) : i + 3 <= Len(mf.sql)
                               /\ Slice(mf.sql, i, i + 3) = <<"D", "R", "O", "P">>
DropGuard(mf, allow_destructive) == ~allow_destructive /\ DropSearch(mf.sql)

\* The order of the checks of _apply_single: the DROP guard first, then the
\* dry-run return, then the execution.
ApplyBranchDryFirst(mf, dry_run, allow_destructive) ==
  IF dry_run THEN "dry"
  ELSE IF DropGuard(mf, allow_destructive) THEN "raise"
  ELSE "exec"
ApplyBranch(mf, dry_run, allow_destructive) ==
  IF DropGuard(mf, allow_destructive) THEN "raise"
  ELSE IF dry_run THEN "dry"
  ELSE "exec"

\* _apply_single(cur, mf, ...) up to exec_multi: print, DROP guard, dry run.
\* `back` is the loop to return to.
ApplySingle(r, k, back) ==
  LET mf == files[r][k]
      o1 == [obs[r] EXCEPT !.entered = Append(@, mf.name)]
      br == ApplyBranch(mf, args.dry_run, args.allow_destructive)
  IN  IF br = "raise"
      THEN /\ exc' = [exc EXCEPT ![r] = "drop"]
           /\ obs' = [obs EXCEPT ![r] = [o1 EXCEPT !.errfile = mf.name]]
           /\ pc' = [pc EXCEPT ![r] = TryExit("drop")]
           /\ UNCHANGED << idx, stmts >>
      ELSE IF br = "dry"
      THEN /\ obs' = [obs EXCEPT ![r] = [o1 EXCEPT !.rendered = Append(@, mf.name)]]
           /\ idx' = [idx EXCEPT ![r] = k + 1]
           /\ pc' = [pc EXCEPT ![r] = back]
           /\ UNCHANGED << exc, stmts >>
      ELSE /\ obs' = [obs EXCEPT ![r] = [o1 EXCEPT !.executed = Append(@, mf.name)]]
           /\ idx' = [idx EXCEPT ![r] = k]
           /\ stmts' = [stmts EXCEPT ![r] = split_sql(mf.sql)]
           /\ pc' = [pc EXCEPT ![r] =
                       IF split_sql(mf.sql) = <<>> THEN "record" ELSE "exec"]
           /\ UNCHANGED exc

\* for mf in files: ... self._apply_single(cur, mf, dry_run, allow_destructive)
VersionedLoop(r) ==
  /\ pc[r] = "versioned"
  /\ LET k == NextVersioned(files[r], idx[r], args.target, already_applied[r])
     IN  IF k = 0
         THEN /\ idx' = [idx EXCEPT ![r] = 1]
              /\ pc' = [pc EXCEPT ![r] = "repeatable"]
              /\ UNCHANGED << stmts, exc, obs >>
         ELSE ApplySingle(r, k, "versioned")
  /\ UNCHANGED << dir, toolVars, history, txn, nextRank, lock, invocations, args, files,
                  already_applied >>

\* for mf in files: ... self._apply_single(..., repeatable=True); then the
\* try block is left normally.
RepeatableLoop(r) ==
  /\ pc[r] = "repeatable"
  /\ LET k == NextRepeatable(files[r], idx[r])
     IN  IF k = 0
         THEN /\ pc' = [pc EXCEPT ![r] = TryExit("none")]
              /\ UNCHANGED << idx, stmts, exc, obs >>
         ELSE ApplySingle(r, k, "repeatable")
  /\ UNCHANGED << dir, toolVars, history, txn, nextRank, lock, invocations, args, files,
                  already_applied >>

\* The loop the file at position idx[r] is applied from
LoopOf(r) == IF files[r][idx[r]].repeatable THEN "repeatable" ELSE "versioned"

\* cur.execute raises when the server rejects the statement, and exec_multi
\* catches nothing.
StatementErrorSwallowed(rejected) == FALSE
StatementRaises(rejected) == rejected

\* exec_multi: cur.execute(stmt) of the next statement. The server runs it as
\* a statement of the open transaction ("dml"), as one that commits the open
\* transaction implicitly ("ddl"), or rejects it ("error", with or without
\* the implicit commit having taken place).
ExecStmt(r) ==
  /\ pc[r] = "exec"
  /\ stmts[r] # <<>>
  /\ \E outcome \in {"dml", "ddl", "error", "error_committed"} :
       /\ IF outcome \in {"ddl", "error_committed"}
          THEN /\ history' = history \cup txn[r]
               /\ txn' = [txn EXCEPT ![r] = {}]
          ELSE UNCHANGED << history, txn >>
       /\ IF StatementRaises(outcome \in {"error", "error_committed"})
          THEN /\ exc' = [exc EXCEPT ![r] = "exec"]
               /\ obs' = [obs EXCEPT ![r].nstmt = @ + 1,
                                     ![r].failed = files[r][idx[r]].name,
                                     ![r].errfile = files[r][idx[r]].name]
               /\ pc' = [pc EXCEPT ![r] = TryExit("exec")]
               /\ UNCHANGED stmts
          ELSE /\ stmts' = [stmts EXCEPT ![r] = Tail(@)]
               /\ obs' = [obs EXCEPT ![r].nstmt = @ + 1,
                                     ![r].failed =
                                        IF outcome \in {"error", "error_committed"}
                                        THEN files[r][idx[r]].name ELSE @]
               /\ pc' = [pc EXCEPT ![r] =
                           IF Tail(stmts[r]) = <<>> THEN "record" ELSE "exec"]
               /\ UNCHANGED exc
  /\ UNCHANGED << dir, toolVars, nextRank, lock, invocations, args, files,
                  already_applied, idx >>

\* history.record_success: the row INSERTed
SuccessRow(r, mf, repeatable) ==
  [ installed_rank |-> nextRank,
    version        |-> IF repeatable THEN None ELSE mf.version,
    description    |-> mf.description,
    type           |-> IF repeatable THEN "Repeatable" ELSE "SQL",
    script         |-> mf.name,
    checksum       |-> mf.checksum,
    success        |-> 1,
    inv            |-> obs[r].inv ]

\* record_success(cur, ...) at the end of _apply_single, and the return to the loop
RecordSuccess(r) ==
  /\ pc[r] = "record"
  /\ LET mf == files[r][idx[r]]
     IN  /\ txn' = [txn EXCEPT ![r] = @ \cup {SuccessRow(r, mf, LoopOf(r) = "repeatable")}]
         /\ obs' = [obs EXCEPT ![r].ninsert = @ + 1,
                               ![r].completed = Append(@, mf.name)]
         /\ pc' = [pc EXCEPT ![r] = LoopOf(r)]
  /\ nextRank' = nextRank + 1
  /\ idx' = [idx EXCEPT ![r] = @ + 1]
  /\ UNCHANGED << dir, toolVars, history, lock, invocations, args, files, already_applied,
                  stmts, exc >>

\* finally: SELECT RELEASE_LOCK(...)
ReleaseLock(r) ==
  /\ pc[r] = "release"
  /\ lock' = IF lock = r THEN 0 ELSE lock
  /\ obs' = [obs EXCEPT ![r].released = TRUE]
  /\ pc' = [pc EXCEPT ![r] = "close"]
  /\ UNCHANGED << dir, toolVars, history, txn, nextRank, invocations, args, files,
                  already_applied, idx, stmts, exc >>

\* driver.connection after the yield: conn.commit() when the body returned,
\* then conn.close(); a session closed with an open transaction is rolled
\* back by the server, and its locks are released. exc[r] stays: it is the
\* exception migrate raised to its caller.
Close(r) ==
  /\ pc[r] = "close"
  /\ history' = IF exc[r] = "none" THEN history \cup txn[r] ELSE history
  /\ txn' = [txn EXCEPT ![r] = {}]
  /\ lock' = IF lock = r THEN 0 ELSE lock
  /\ pc' = [pc EXCEPT ![r] = "done"]
  /\ UNCHANGED << dir, toolVars, nextRank, invocations, args, files, already_applied,
                  idx, stmts, exc, obs >>

Next ==
  \E r \in Runs :
    \/ Start(r)
    \/ GetLock(r)
    \/ GetLockTimeout(r)
    \/ LoadApplied(r)
    \/ VersionedLoop(r)
    \/ RepeatableLoop(r)
    \/ ExecStmt(r)
    \/ RecordSuccess(r)
    \/ ReleaseLock(r)
    \/ Close(r)

Spec == Init /\ [][Next]_vars

\* ------------------------------------------------------ the ordering example
\* The directory of the three files V1__init.sql, V10__add_col.sql and
\* V2__add_index.sql, none of which holds a DROP.
OrderingDirectories ==
  { { [name |-> N_V1, sql |-> t1], [name |-> N_V10, sql |-> t2], [name |-> N_V2, sql |-> t3] } :
      t1 \in {T_a}, t2 \in {T_a, T_ab}, t3 \in {T_a, T_DROPS} }

InitOrdering ==
  /\ ToolsIdle
  /\ dir \in OrderingDirectories
  /\ history = {}
  /\ txn = [r \in Runs |-> {}]
  /\ nextRank = 1
  /\ lock = 0
  /\ invocations = 0
  /\ pc = [r \in Runs |-> "idle"]
  /\ args \in [dry_run : BOOLEAN, target : Targets, allow_destructive : BOOLEAN]
  /\ files = [r \in Runs |-> <<>>]
  /\ already_applied = [r \in Runs |-> {}]
  /\ idx = [r \in Runs |-> 1]
  /\ stmts = [r \in Runs |-> <<>>]
  /\ exc = [r \in Runs |-> "none"]
  /\ obs = [r \in Runs |-> NoObs]

SpecOrdering == InitOrdering /\ [][Next]_vars

\* ------------------------------------------------------ status
\* applied = {row["version"]: row for row in cur.fetchall()} over the rows in
\* installed_rank order: of the rows of one version the last one stays.
StatusApplied(rows) ==
  [ v \in { w.version : w \in rows } |->
      CHOOSE w \in rows : /\ w.version = v
                          /\ \A u \in rows : u.version = v => u.installed_rank <= w.installed_rank ]

\* The three lists status builds from the discovered files and the rows read
status(fs, rows) ==
  LET applied  == StatusApplied(rows)
      recorded == SelectSeq(fs, LAMBDA mf : ~mf.repeatable /\ mf.version \in DOMAIN applied)
      differ   == SelectSeq(recorded, LAMBDA mf : applied[mf.version].checksum # mf.checksum)
  IN  [ applied  |-> recorded,
        pending  |-> SelectSeq(fs, LAMBDA mf : ~mf.repeatable /\ mf.version \notin DOMAIN applied),
        mismatch |-> [ i \in 1..Len(differ) |-> << differ[i], applied[differ[i].version].checksum >> ] ]

\* No migrate run is in progress.
Quiet == \A r \in Runs : pc[r] \in {"idle", "done"}

\* Runner.status(), called while no migrate run is in progress: a session of
\* its own reads the committed rows, then the directory is discovered and
\* classified.
Status ==
  /\ Quiet
  /\ \E fs \in discover(dir) :
       LET st == status(fs, history)
       IN  report' = [ calls    |-> 1,
                       applied  |-> st.applied,
                       pending  |-> st.pending,
                       mismatch |-> st.mismatch,
                       files    |-> fs,
                       rows     |-> history,
                       over     |-> { r \in Runs : pc[r] = "done" } ]
  /\ UNCHANGED << migrateVars, schemaVars, moreVars >>

\* The texts a file is rewritten to
EditTexts == {T_ab}

\* Somebody rewrites a migration file of the directory (once per file),
\* between migrate runs.
EditFile ==
  /\ Quiet
  /\ \E f \in dir \cap Catalogue : \E t \in EditTexts \ {f.sql} :
       dir' = (dir \ {f}) \cup {[name |-> f.name, sql |-> t]}
  /\ UNCHANGED << history, txn, nextRank, lock, invocations, pc, args, files,
                  already_applied, idx, stmts, exc, obs, toolVars >>

\* The directories of the status scenarios
EditDirectories == { d \in Directories : \A f \in d : f.name \in {N_V1, N_V2, N_Vempty} }

InitEdit ==
  /\ ToolsIdle
  /\ dir \in EditDirectories
  /\ history = {}
  /\ txn = [r \in Runs |-> {}]
  /\ nextRank = 1
  /\ lock = 0
  /\ invocations = 0
  /\ pc = [r \in Runs |-> "idle"]
  /\ args \in [dry_run : {FALSE}, target : {None}, allow_destructive : BOOLEAN]
  /\ files = [r \in Runs |-> <<>>]
  /\ already_applied = [r \in Runs |-> {}]
  /\ idx = [r \in Runs |-> 1]
  /\ stmts = [r \in Runs |-> <<>>]
  /\ exc = [r \in Runs |-> "none"]
  /\ obs = [r \in Runs |-> NoObs]

NextEdit == Next \/ EditFile \/ Status

SpecEdit == InitEdit /\ [][NextEdit]_vars

\* ------------------------------------------------------ a dry run, then a real one
\* The next migrate call is made with the other value of dry_run and the same
\* target and allow_destructive.
FlipDryRun ==
  /\ Quiet
  /\ args' = [args EXCEPT !.dry_run = ~@]
  /\ UNCHANGED << dir, history, txn, nextRank, lock, invocations, pc, files,
                  already_applied, idx, stmts, exc, obs, toolVars >>

NextDry == Next \/ FlipDryRun

SpecDry == Init /\ [][NextDry]_vars

\* ------------------------------------------------------ dborbit: schema_diff
\* Largest number of tables in a snapshot.
MaxTables == 3

\* The character U+0060 (grave accent), which encloses identifiers in MySQL
Backquote == "U+0060"

\* Table identifiers
I_b  == <<"b">>
I_a  == <<"a">>
I_ab == <<"a", "b">>
I_a2 == <<"a", "2">>
TableIds == << I_b, I_ab, I_a, I_a2 >>
Tables == { TableIds[i] : i \in 1..MaxTables }

\* hashlib.md5(text).hexdigest(): deterministic, and distinct texts have distinct digests.
md5(text) == <<"md5", text>>

\* The digests of two normalized statements
Digests == { md5(<<"x">>), md5(<<"y">>) }

\* The dicts file_schema_map and db_schema_map may return
DigestMaps == UNION { [D -> Digests] : D \in SUBSET Tables }

\* sorted(S) of a set of str
Sorted(S) ==
  CHOOSE s \in [1..Cardinality(S) -> S] :
    \A i, j \in 1..Cardinality(S) : i < j => StrLess(s[i], s[j])

\* schema_diff(file_map, db_map)
schema_diff_common(fm, dm) ==
  [ new     |-> Sorted(DOMAIN fm \ DOMAIN dm),
    missing |-> Sorted(DOMAIN dm \ DOMAIN fm),
    altered |-> Sorted({ t \in DOMAIN fm : t \in DOMAIN dm }) ]
schema_diff(fm, dm) ==
  [ new     |-> Sorted(DOMAIN fm \ DOMAIN dm),
    missing |-> Sorted(DOMAIN dm \ DOMAIN fm),
    altered |-> Sorted({ t \in DOMAIN fm : t \in DOMAIN dm /\ fm[t] # dm[t] }) ]

\* One call of schema_diff on the two maps
SchemaDiff ==
  /\ sd.calls = 0
  /\ LET res == schema_diff(file_map, db_map)
     IN  sd' = [calls |-> 1, new |-> res.new, missing |-> res.missing, altered |-> res.altered]
  /\ UNCHANGED << migrateVars, report, file_map, db_map, current, desired, sql_changes, moreVars >>

\* No migrate run, an empty directory and an empty history table
MigrateAtRest ==
  /\ dir = {}
  /\ history = {}
  /\ txn = [r \in Runs |-> {}]
  /\ nextRank = 1
  /\ lock = 0
  /\ invocations = 0
  /\ pc = [r \in Runs |-> "idle"]
  /\ files = [r \in Runs |-> <<>>]
  /\ already_applied = [r \in Runs |-> {}]
  /\ idx = [r \in Runs |-> 1]
  /\ stmts = [r \in Runs |-> <<>>]
  /\ exc = [r \in Runs |-> "none"]
  /\ obs = [r \in Runs |-> NoObs]

InitSchemaDiff ==
  /\ MigrateAtRest
  /\ args = [dry_run |-> FALSE, target |-> None, allow_destructive |-> FALSE]
  /\ report = NoReport
  /\ file_map \in DigestMaps
  /\ db_map \in DigestMaps
  /\ sd = NoSchemaDiff
  /\ current = EmptyMap /\ desired = EmptyMap /\ sql_changes = NoChanges
  /\ MoreIdle

NextSchemaDiff == SchemaDiff

SpecSchemaDiff == InitSchemaDiff /\ [][NextSchemaDiff]_vars

\* ------------------------------------------------------ dbtool: diff
\* The column of a table in the DDL texts used
Columns == {"x", "y"}

\* The CREATE TABLE statement of table t with column c, as both
\* _current_schema and _desired_schema hold it: ending in one ";"
Ddl(t, c) == <<"C", "R", "E", "A", "T", "E", " ", "T", "A", "B", "L", "E", " ", Backquote>> \o t \o <<Backquote, " ", "(">> \o <<c>> \o <<" ", "I", "N", "T", ")", ";">>

\* The dicts _current_schema and _desired_schema may return
DdlMaps == UNION { { [t \in D |-> Ddl(t, col[t])] : col \in [D -> Columns] } : D \in SUBSET Tables }

\* The f-string of drop_stmt: DROP TABLE, the identifier in backquotes, ";"
DropStmt(tbl) == <<"D", "R", "O", "P", " ", "T", "A", "B", "L", "E", " ", Backquote>> \o tbl \o <<Backquote, ";">>

\* What the second loop of diff appends for a table of the database only
RemovedLineAlwaysDrop(tbl, allow_destructive) == DropStmt(tbl)
RemovedLine(tbl, allow_destructive) ==
  IF allow_destructive THEN DropStmt(tbl)
  ELSE <<"-", "-", " ", "!", "!", "!", " ", "w", "o", "u", "l", "d", " ", "e", "x", "e", "c", "u", "t", "e", " ", Backquote>> \o DropStmt(tbl) \o <<Backquote, " ", "(", "d", "e", "s", "t", "r", "u", "c", "t", "i", "v", "e", ")">>

\* difflib.unified_diff(a.splitlines(), b.splitlines(), fromfile="current",
\* tofile="desired", lineterm="") of two different one-line texts
unified_diff(a, b) ==
  << <<"-", "-", "-", " ", "c", "u", "r", "r", "e", "n", "t">>, <<"+", "+", "+", " ", "d", "e", "s", "i", "r", "e", "d">>, <<"@", "@", " ", "-", "1", " ", "+", "1", " ", "@", "@">>, <<"-">> \o a, <<"+">> \o b >>

\* What the third loop of diff appends for a table whose two texts differ
AlteredLines(tbl, cur, des) ==
  LET ud == unified_diff(cur, des)
  IN  << <<"-", "-", " ", "d", "i", "f", "f", " ", "f", "o", "r", " ", "t", "a", "b", "l", "e", " ", Backquote>> \o tbl \o <<Backquote>> >>
      \o [ i \in 1..Len(ud) |-> <<"-", "-", " ">> \o ud[i] ]
      \o << <<"-", "-", " ", "m", "a", "n", "u", "a", "l", " ", "A", "L", "T", "E", "R", " ", "r", "e", "q", "u", "i", "r", "e", "d", " ", "f", "o", "r", " ", Backquote>> \o tbl \o <<Backquote>> >>

\* The orders in which a Python set may be iterated
Orders(S) ==
  { s \in [1..Cardinality(S) -> S] :
      \A i, j \in 1..Cardinality(S) : i # j => s[i] # s[j] }

RECURSIVE Flatten(_)
Flatten(ss) == IF ss = <<>> THEN <<>> ELSE Head(ss) \o Flatten(Tail(ss))

\* desired[tbl].strip() != current[tbl].strip()
Differs(cur, des, tbl) == Strip(des[tbl]) # Strip(cur[tbl])

\* The list diff builds when its three loops take the tables in the orders
\* o1, o2 and o3
diff(cur, des, allow_destructive, o1, o2, o3) ==
  [ i \in 1..Len(o1) |-> des[o1[i]] ]
  \o [ i \in 1..Len(o2) |-> RemovedLine(o2[i], allow_destructive) ]
  \o Flatten([ i \in 1..Len(o3) |->
                 IF Differs(cur, des, o3[i])
                 THEN AlteredLines(o3[i], cur[o3[i]], des[o3[i]])
                 ELSE <<>> ])

\* diff(env, allow_destructive) on the two snapshots: the loops run over
\* desired.keys() - current.keys(), current.keys() - desired.keys() and
\* desired.keys() & current.keys(), which are sets.
Diff ==
  /\ sql_changes.calls = 0
  /\ \E o1 \in Orders(DOMAIN desired \ DOMAIN current) :
     \E o2 \in Orders(DOMAIN current \ DOMAIN desired) :
     \E o3 \in Orders(DOMAIN desired \cap DOMAIN current) :
       sql_changes' =
         [ calls   |-> 1,
           lines   |-> diff(current, desired, args.allow_destructive, o1, o2, o3),
           created |-> o1,
           removed |-> o2,
           altered |-> SelectSeq(o3, LAMBDA t : Differs(current, desired, t)) ]
  /\ UNCHANGED << migrateVars, report, file_map, db_map, sd, current, desired, moreVars >>

InitDiff ==
  /\ MigrateAtRest
  /\ args \in [dry_run : {FALSE}, target : {None}, allow_destructive : BOOLEAN]
  /\ report = NoReport
  /\ file_map = EmptyMap /\ db_map = EmptyMap /\ sd = NoSchemaDiff
  /\ current \in DdlMaps
  /\ desired \in DdlMaps
  /\ sql_changes = NoChanges
  /\ MoreIdle

NextDiff == Diff

SpecDiff == InitDiff /\ [][NextDiff]_vars

\* ------------------------------------------------------ dbtool: apply_schema
\* stmt.startswith("--"): the lines the loop of apply_schema passes over
SkipsNothing(stmt) == FALSE
Skips(stmt) == Len(stmt) >= 2 /\ stmt[1] = "-" /\ stmt[2] = "-"

\* apply_schema goes on to the execution: it did not return for the dry run,
\* and click.confirm(abort=True) was not called or was answered with yes.
ProceedsWhenNotDry(dry_run, auto_approve, answer) == ~dry_run
Proceeds(dry_run, auto_approve, answer) == ~dry_run /\ (auto_approve \/ answer)

\* exec_multi(cur, stmt) for every line of the list that is not passed over:
\* the statements sent to the server, in order
ToExecute(lines) ==
  LET run == SelectSeq(lines, LAMBDA l : ~Skips(l))
  IN  Flatten([ i \in 1..Len(run) |-> split_sql(run[i]) ])

\* The tables of the database after the server has executed statement s
Executed(cur, des, s) ==
  IF \E t \in DOMAIN des : s = des[t]
  THEN LET t == CHOOSE t \in DOMAIN des : s = des[t]
       IN  [ u \in DOMAIN cur \cup {t} |-> IF u = t THEN des[t] ELSE cur[u] ]
  ELSE IF \E t \in DOMAIN cur : s = DropStmt(t)
  THEN LET t == CHOOSE t \in DOMAIN cur : s = DropStmt(t)
       IN  [ u \in DOMAIN cur \ {t} |-> cur[u] ]
  ELSE cur

RECURSIVE ExecutedAll(_, _, _)
ExecutedAll(cur, des, ss) ==
  IF ss = <<>> THEN cur ELSE ExecutedAll(Executed(cur, des, Head(ss)), des, Tail(ss))

\* apply_schema(env, schema_dir, auto_approve, allow_destructive, dry_run).
\* The operator answers the prompt with yes or no; the server rejects the
\* k-th statement (k = 0: none), which ends the call with that error.
ApplySchema ==
  /\ ap.calls = 0
  /\ \E auto_approve \in BOOLEAN : \E answer \in BOOLEAN :
     \E o1 \in Orders(DOMAIN desired \ DOMAIN current) :
     \E o2 \in Orders(DOMAIN current \ DOMAIN desired) :
     \E o3 \in Orders(DOMAIN desired \cap DOMAIN current) :
       LET lines == diff(current, desired, args.allow_destructive, o1, o2, o3)
           todo  == ToExecute(lines)
           seen  == [NoApply EXCEPT !.calls = 1, !.stmts = lines, !.live = current,
                                    !.auto_approve = auto_approve]
       IN  IF lines = <<>>
           THEN /\ ap' = [seen EXCEPT !.result = "up to date"]
                /\ UNCHANGED current
           ELSE IF args.dry_run
           THEN /\ ap' = [seen EXCEPT !.echoed = TRUE, !.result = "dry run"]
                /\ UNCHANGED current
           ELSE IF ~Proceeds(args.dry_run, auto_approve, answer)
           THEN /\ ap' = [seen EXCEPT !.echoed = TRUE, !.prompted = TRUE, !.result = "Abort"]
                /\ UNCHANGED current
           ELSE \E k \in 0..Len(todo) :
                  /\ ap' = [seen EXCEPT !.echoed = TRUE,
                                        !.prompted = ~auto_approve,
                                        !.confirmed = ~auto_approve /\ answer,
                                        !.ensured = TRUE,
                                        !.executed = IF k = 0 THEN todo ELSE Slice(todo, 1, k),
                                        !.recorded = (k = 0),
                                        !.result = IF k = 0 THEN "applied" ELSE "error"]
                  /\ current' = ExecutedAll(current, desired,
                                            IF k = 0 THEN todo ELSE Slice(todo, 1, k - 1))
  /\ UNCHANGED << migrateVars, report, file_map, db_map, sd, desired, sql_changes,
                  schema_file, database, boot, script, split >>

\* The dicts _desired_schema may return for schema files that give every
\* table the column x; the database has the table with x or with y
DesiredMaps == { m \in DdlMaps : \A t \in DOMAIN m : m[t] = Ddl(t, "x") }

InitApply ==
  /\ MigrateAtRest
  /\ args \in [dry_run : BOOLEAN, target : {None}, allow_destructive : BOOLEAN]
  /\ report = NoReport
  /\ file_map = EmptyMap /\ db_map = EmptyMap /\ sd = NoSchemaDiff
  /\ current \in DdlMaps
  /\ desired \in DesiredMaps
  /\ sql_changes = NoChanges
  /\ MoreIdle

SpecApply == InitApply /\ [][ApplySchema]_vars

\* ------------------------------------------------------ dborbit: bootstrap
\* Largest number of bootstrap invocations, one after the other.
MaxBoots == 2

\* The table of tracking.py and the table of _META_SQL
TRACKING_TABLE == <<"_", "d", "b", "o", "r", "b", "i", "t", "_", "s", "c", "h", "e", "m", "a", "_", "a", "p", "p", "l", "i", "e", "d">>
META_TABLE == <<"_", "_", "s", "c", "h", "e", "m", "a", "_", "m", "e", "t", "a">>

\* A schema file: the table definitions of its CREATE TABLE statements (the
\* normalized statement text stands for the definition), and whether it
\* ends with a statement that creates no table (a routine, an INSERT).
SchemaFiles ==
  { [is_file |-> TRUE, tables |-> m, other |-> o] :
      m \in { EmptyMap, [t \in {I_a} |-> <<"x">>], [t \in {I_a, I_b} |-> <<"x">>] },
      o \in BOOLEAN }

\* The tables a service database holds before the first bootstrap
LiveTables == { EmptyMap, [t \in {I_a} |-> <<"y">>], [t \in {I_a} |-> <<"x">>] }

\* statements(script) of a schema file: its statements in source order
FileStatements(f) ==
  LET ts == Sorted(DOMAIN f.tables)
  IN  [ i \in 1..Len(ts) |-> [kind |-> "CREATE TABLE", table |-> ts[i], def |-> f.tables[ts[i]]] ]
      \o (IF f.other THEN << [kind |-> "other", table |-> <<>>, def |-> <<>>] >> ELSE <<>>)

\* compute_schema_file_hash: the digest of the bytes of the file
compute_schema_file_hash(f) == md5(<<"bytes", f>>)

\* file_schema_map: table -> digest of the normalized CREATE TABLE statement
file_schema_map(f) == [ t \in { LowerStr(u) : u \in DOMAIN f.tables } |-> md5(f.tables[t]) ]

\* db_schema_map: every table of information_schema.tables for the database,
\* its name in lower case -> digest of the normalized SHOW CREATE TABLE text
db_schema_map(tbls) == [ t \in { LowerStr(u) : u \in DOMAIN tbls } |-> md5(tbls[t]) ]

\* db_has_tables: COUNT(*) of information_schema.tables for the database > 0
db_has_tables(tbls) == Cardinality(DOMAIN tbls) > 0

\* The server executes CREATE TABLE (IF NOT EXISTS) for a table
CreateTable(tbls, t, def) ==
  IF t \in DOMAIN tbls THEN tbls
  ELSE [ u \in DOMAIN tbls \cup {t} |-> IF u = t THEN def ELSE tbls[u] ]

\* ensure_tracking_table
ensure_tracking_table(tbls) == CreateTable(tbls, TRACKING_TABLE, <<"t">>)

\* The tables after the first n statements of the list were executed
RECURSIVE RunStatements(_, _, _)
RunStatements(tbls, ss, n) ==
  IF n = 0 \/ ss = <<>> THEN tbls
  ELSE RunStatements(IF Head(ss).kind = "CREATE TABLE"
                     THEN CreateTable(tbls, Head(ss).table, Head(ss).def)
                     ELSE tbls,
                     Tail(ss), n - 1)

\* import_schema when the server rejects the k-th statement (k = 0: none):
\* the statements sent to the server and the tables afterwards
import_schema(tbls, f, k) ==
  LET ss == FileStatements(f)
  IN  [ executed |-> IF k = 0 THEN ss ELSE SubSeq(ss, 1, k),
        tables   |-> RunStatements(tbls, ss, IF k = 0 THEN Len(ss) ELSE k - 1),
        raised   |-> k # 0 ]

\* set_applied_schema_hash: INSERT ... ON DUPLICATE KEY UPDATE on a table with
\* UNIQUE KEY (schema_path). The number of rows of the path afterwards,
\* rows being their number before: a row is added when there is none.
set_applied_insert(rows) == rows + 1
set_applied_schema_hash(rows) == IF rows = 0 THEN 1 ELSE rows

\* No schema_diff result
NoDiff == [new |-> <<>>, missing |-> <<>>, altered |-> <<>>]

\* One iteration of the loop of dborbit's bootstrap (cli.py) for a service
\* with schema file f and database db, the database and the account being
\* there: the operator gives answer to a prompt and the server rejects the
\* k-th statement of the file (k = 0: none).
bootstrap_iteration(f, db, answer, k) ==
  LET begun == [NoIteration EXCEPT !.recorded = db.row, !.empty = ~db_has_tables(db.tables)]
      same  == [it |-> begun, tables |-> db.tables, row |-> db.row, rows |-> db.rows,
                raised |-> FALSE,
                fm |-> EmptyMap, dm |-> EmptyMap, diff |-> NoDiff]
  IN  IF ~f.is_file
      THEN [same EXCEPT !.it.outcome = "no schema"]
      ELSE
        LET file_hash == compute_schema_file_hash(f)
            tracked   == ensure_tracking_table(db.tables)
            prev_hash == db.row
            read      == [same EXCEPT !.it.file_hash = file_hash, !.tables = tracked]
            imp       == import_schema(tracked, f, k)
            done      == [read EXCEPT !.it.executed = imp.executed, !.it.failed = imp.raised,
                                      !.tables = imp.tables]
        IN  IF prev_hash = file_hash
            THEN [read EXCEPT !.it.outcome = "hash matched"]
            ELSE IF ~db_has_tables(tracked)
            THEN IF ~answer
                 THEN [read EXCEPT !.it.outcome = "skipped by user"]
                 ELSE IF imp.raised
                 THEN [done EXCEPT !.it.outcome = "raised", !.raised = TRUE]
                 ELSE [done EXCEPT !.it.outcome = "imported", !.it.stored = TRUE, !.row = file_hash, !.rows = set_applied_schema_hash(db.rows)]
            ELSE
              LET fm   == file_schema_map(f)
                  dm   == db_schema_map(tracked)
                  res  == schema_diff(fm, dm)
              IN  IF res.new = <<>> /\ res.missing = <<>> /\ res.altered = <<>>
                  THEN [read EXCEPT !.it.outcome = "identical", !.it.diffed = TRUE,
                                    !.it.stored = TRUE, !.row = file_hash, !.rows = set_applied_schema_hash(db.rows),
                                    !.fm = fm, !.dm = dm, !.diff = res]
                  ELSE IF ~answer
                  THEN [read EXCEPT !.it.outcome = "skipped by user", !.it.diffed = TRUE,
                                    !.fm = fm, !.dm = dm, !.diff = res]
                  ELSE IF imp.raised
                  THEN [done EXCEPT !.it.outcome = "apply failed", !.it.diffed = TRUE,
                                    !.fm = fm, !.dm = dm, !.diff = res]
                  ELSE [done EXCEPT !.it.outcome = "applied", !.it.diffed = TRUE,
                                    !.it.stored = TRUE, !.row = file_hash, !.rows = set_applied_schema_hash(db.rows),
                                    !.fm = fm, !.dm = dm, !.diff = res]

\* bootstrap(manifest_file) begins: the loop is about to take the first service.
BootstrapStart ==
  /\ boot.pc \in {"idle", "raised"}
  /\ boot.runs < MaxBoots
  /\ boot' = [boot EXCEPT !.runs = @ + 1, !.pc = "loop", !.todo = ServiceList,
                          !.it = [s \in Services |-> NoIteration]]
  /\ UNCHANGED << migrateVars, report, schemaVars, ap, schema_file, database, script, split >>

\* The state after the iteration for service s that did what o says
Iterated(s, o) ==
  /\ database' = [database EXCEPT ![s] = [tables |-> o.tables, row |-> o.row, rows |-> o.rows]]
  /\ boot' = [boot EXCEPT
       !.it[s]   = o.it,
       !.todo    = IF o.raised THEN <<>> ELSE Tail(@),
       !.pc      = IF o.raised THEN "raised"
                   ELSE IF Tail(boot.todo) = <<>> THEN "idle" ELSE "loop",
       !.applied = IF o.it.outcome \in {"imported", "applied"} THEN @ \cup {s} ELSE @,
       !.rerun   = IF s \in boot.applied /\ o.it.executed # <<>> THEN @ \cup {s} ELSE @,
       !.checked = IF o.it.diffed THEN 0 ELSE @ ]
  /\ IF o.it.diffed
     THEN /\ file_map' = o.fm
          /\ db_map' = o.dm
          /\ sd' = [calls |-> sd.calls + 1, new |-> o.diff.new,
                    missing |-> o.diff.missing, altered |-> o.diff.altered]
     ELSE UNCHANGED << file_map, db_map, sd >>
  /\ UNCHANGED << migrateVars, report, current, desired, sql_changes, ap, schema_file, script, split >>

\* The loop body of dborbit's bootstrap for the next service
BootstrapService ==
  /\ boot.pc = "loop"
  /\ LET s == Head(boot.todo)
     IN  \E answer \in BOOLEAN :
         \E k \in 0..(IF ~schema_file[s].is_file THEN 0 ELSE Len(FileStatements(schema_file[s]))) :
           Iterated(s, bootstrap_iteration(schema_file[s], database[s], answer, k))

\* schema_diff(cur, db, schema_path) called for a service between bootstrap runs
SchemaDiffService ==
  /\ boot.pc \in {"idle", "raised"}
  /\ sd.calls < MaxBoots + 2
  /\ \E s \in Services :
       /\ schema_file[s].is_file
       /\ LET fm  == file_schema_map(schema_file[s])
              dm  == db_schema_map(database[s].tables)
              res == schema_diff(fm, dm)
          IN  /\ file_map' = fm
              /\ db_map' = dm
              /\ sd' = [calls |-> sd.calls + 1, new |-> res.new,
                        missing |-> res.missing, altered |-> res.altered]
              /\ boot' = [boot EXCEPT !.checked = s]
  /\ UNCHANGED << migrateVars, report, current, desired, sql_changes, ap, schema_file, database, script, split >>

InitBootstrap ==
  /\ MigrateAtRest
  /\ args = [dry_run |-> FALSE, target |-> None, allow_destructive |-> FALSE]
  /\ report = NoReport
  /\ file_map = EmptyMap /\ db_map = EmptyMap /\ sd = NoSchemaDiff
  /\ current = EmptyMap /\ desired = EmptyMap /\ sql_changes = NoChanges
  /\ ap = NoApply
  /\ schema_file \in [Services -> SchemaFiles \cup {NoFile}]
  /\ database \in [Services -> [tables : LiveTables, row : {None}, rows : {0}]]
  /\ boot = NoBoot
  /\ SplitIdle

NextBootstrap == BootstrapStart \/ BootstrapService \/ SchemaDiffService

SpecBootstrap == InitBootstrap /\ [][NextBootstrap]_vars

\* The schema file of a service is replaced by another between two runs of
\* bootstrap.
EditSchemaFile ==
  /\ boot.pc \in {"idle", "raised"}
  /\ boot.runs \in 1..(MaxBoots - 1)
  /\ \E s \in Services : \E f \in SchemaFiles \ {schema_file[s]} :
       /\ schema_file[s].is_file
       /\ ~f.other
       /\ schema_file' = [schema_file EXCEPT ![s] = f]
  /\ UNCHANGED << migrateVars, report, schemaVars, ap, database, boot, script, split >>

NextTracking == BootstrapStart \/ BootstrapService \/ EditSchemaFile

\* The schema files hold CREATE TABLE statements only.
InitTracking ==
  /\ InitBootstrap
  /\ \A s \in Services : ~schema_file[s].other

SpecTracking == InitTracking /\ [][NextTracking]_vars

\* ------------------------------------------------------ bootstrap_mariadb.py
\* _checksum: the digest of the normalized text of the file
checksum(f) == md5(<<"normalized", f>>)

\* _db_has_real_tables: a table other than __schema_meta exists
db_has_real_tables(tbls) == Cardinality(DOMAIN tbls \ {META_TABLE}) > 0

\* _db_maps: the tables other than __schema_meta, name in lower case ->
\* digest of the normalized SHOW CREATE TABLE text
db_maps(tbls) == [ t \in { LowerStr(u) : u \in DOMAIN tbls \ {META_TABLE} } |-> md5(tbls[t]) ]

\* _file_maps: table -> digest of the normalized CREATE TABLE statement
file_maps(f) == [ t \in { LowerStr(u) : u \in DOMAIN f.tables } |-> md5(f.tables[t]) ]

\* _meta_get: None without the table __schema_meta or without its row
\* _meta_set: REPLACE INTO __schema_meta VALUES (1, ...), id being the
\* primary key. The number of rows with id 1 afterwards
meta_set(rows) == IF rows = 0 THEN 1 ELSE rows

meta_get(db) == IF META_TABLE \in DOMAIN db.tables THEN db.row ELSE None

\* One iteration of the loop of bootstrap_mariadb.bootstrap for a service
\* with schema file f and database db: the operator gives answer to the
\* prompt and the server rejects the k-th statement of the file (k = 0: none).
mariadb_iteration(f, db, answer, k) ==
  LET begun == [NoIteration EXCEPT !.recorded = meta_get(db),
                                   !.empty = ~db_has_real_tables(db.tables)]
      same  == [it |-> begun, tables |-> db.tables, row |-> db.row, rows |-> db.rows,
                raised |-> FALSE,
                fm |-> EmptyMap, dm |-> EmptyMap, diff |-> NoDiff]
  IN  IF ~f.is_file
      THEN [same EXCEPT !.it.outcome = "no schema"]
      ELSE
        LET file_cs == checksum(f)
            read    == [same EXCEPT !.it.file_hash = file_cs]
            imp     == import_schema(db.tables, f, k)
            done    == [read EXCEPT !.it.executed = imp.executed, !.it.failed = imp.raised,
                                    !.tables = imp.tables]
            stored  == [done EXCEPT !.it.stored = TRUE, !.row = file_cs, !.rows = meta_set(db.rows),
                                    !.tables = CreateTable(imp.tables, META_TABLE, <<"m">>)]
        IN  IF ~db_has_real_tables(db.tables)
            THEN IF imp.raised
                 THEN [done EXCEPT !.it.outcome = "raised", !.raised = TRUE]
                 ELSE [stored EXCEPT !.it.outcome = "imported"]
            ELSE IF meta_get(db) = file_cs
            THEN [read EXCEPT !.it.outcome = "unchanged"]
            ELSE
              LET fm  == file_maps(f)
                  dm  == db_maps(db.tables)
                  res == schema_diff(fm, dm)
              IN  IF ~answer
                  THEN [read EXCEPT !.it.outcome = "skipped by user", !.it.diffed = TRUE,
                                    !.fm = fm, !.dm = dm, !.diff = res]
                  ELSE IF imp.raised
                  THEN [done EXCEPT !.it.outcome = "apply failed", !.it.diffed = TRUE,
                                    !.fm = fm, !.dm = dm, !.diff = res]
                  ELSE [stored EXCEPT !.it.outcome = "applied", !.it.diffed = TRUE,
                                      !.fm = fm, !.dm = dm, !.diff = res]

\* The loop body of bootstrap_mariadb.bootstrap for the next service
MariadbService ==
  /\ boot.pc = "loop"
  /\ LET s == Head(boot.todo)
     IN  \E answer \in BOOLEAN :
         \E k \in 0..(IF ~schema_file[s].is_file THEN 0 ELSE Len(FileStatements(schema_file[s]))) :
           Iterated(s, mariadb_iteration(schema_file[s], database[s], answer, k))

NextMariadb == BootstrapStart \/ MariadbService

SpecMariadb == InitBootstrap /\ [][NextMariadb]_vars

\* ------------------------------------------------------ the statement splitter
\* Largest number of fragments a script is put together from.
MaxLines == 3

\* The characters str.strip(), str.rstrip(), str.lstrip() and \s take as
\* white space, of those used in the scripts
Whitespace == {" ", "\n"}

lstrip(s) ==
  LET black == { i \in 1..Len(s) : s[i] \notin Whitespace }
  IN  IF black = {} THEN <<>>
      ELSE SubSeq(s, CHOOSE i \in black : \A j \in black : i <= j, Len(s))
rstrip(s) ==
  LET black == { i \in 1..Len(s) : s[i] \notin Whitespace }
  IN  IF black = {} THEN <<>>
      ELSE SubSeq(s, 1, CHOOSE i \in black : \A j \in black : j <= i)
strip(s) == lstrip(rstrip(s))

\* sub in s
HasSub(s, sub) == \E i \in 1..(Len(s) - Len(sub) + 1) : SubSeq(s, i, i + Len(sub) - 1) = sub

\* s.startswith(sub), s.endswith(sub)
startswith(s, sub) == Len(sub) <= Len(s) /\ SubSeq(s, 1, Len(sub)) = sub
endswith(s, sub) == Len(sub) <= Len(s) /\ SubSeq(s, Len(s) - Len(sub) + 1, Len(s)) = sub

\* s.rsplit(sep, 1)[0]: what precedes the last occurrence of sep, all of s
\* when there is none
rsplit_head(s, sep) ==
  LET at == { i \in 1..(Len(s) - Len(sep) + 1) : SubSeq(s, i, i + Len(sep) - 1) = sep }
  IN  IF at = {} THEN s
      ELSE SubSeq(s, 1, (CHOOSE i \in at : \A j \in at : j <= i) - 1)

\* s.splitlines(keepends): the lines of s, a line ending at "\n"
splitlines(s, keepends) ==
  LET ends   == { i \in 1..Len(s) : s[i] = "\n" }
      starts == { p \in 1..Len(s) : p = 1 \/ (p - 1) \in ends }
      last(p) == IF \E i \in ends : i >= p
                 THEN CHOOSE i \in ends : i >= p /\ \A j \in ends : j >= p => i <= j
                 ELSE Len(s)
      line(p) == SubSeq(s, p, IF s[last(p)] = "\n" /\ ~keepends THEN last(p) - 1 ELSE last(p))
  IN  [ k \in 1..Cardinality(starts) |->
          line(CHOOSE p \in starts : Cardinality({ q \in starts : q < p }) = k - 1) ]

\* "\n".join(lines)
RECURSIVE join_lines(_)
join_lines(lines) ==
  IF lines = <<>> THEN <<>>
  ELSE IF Len(lines) = 1 THEN Head(lines)
  ELSE Head(lines) \o <<"\n">> \o join_lines(Tail(lines))

\* _DELIM_RE.match(line).group(1) for ^\s*DELIMITER\s+(.+) with re.I, None
\* when the line does not match: after the keyword \s+ takes as much white
\* space as leaves the group one character other than "\n" to begin with,
\* and the group runs to the end of the line.
delim_group(line) ==
  LET l     == lstrip(line)
      after == SubSeq(l, 10, Len(l))
      from  == { p \in 2..Len(after) :
                   /\ \A i \in 1..(p - 1) : after[i] \in Whitespace
                   /\ after[p] # "\n" }
  IN  IF Len(l) >= 9 /\ UpperStr(SubSeq(l, 1, 9)) = <<"D", "E", "L", "I", "M", "I", "T", "E", "R">> /\ from # {}
      THEN LET p == CHOOSE p \in from : \A q \in from : q <= p
               e == CHOOSE e \in p..Len(after) :
                      /\ \A i \in p..e : after[i] # "\n"
                      /\ (e = Len(after) \/ after[e + 1] = "\n")
           IN  SubSeq(after, p, e)
      ELSE None

\* The loop of statements over the lines left, with the delimiter, the text
\* of buf joined and the statements yielded so far; then the final yield
RECURSIVE statements_loop(_, _, _, _)
statements_loop(lines, delim, buf, out) ==
  IF lines = <<>>
  THEN (IF buf # <<>> THEN Append(out, strip(buf)) ELSE out)
  ELSE
    LET line == Head(lines)
        m    == delim_group(line)
        text == buf \o line
        stmt == strip(rsplit_head(text, delim))
    IN  IF m # None
        THEN statements_loop(Tail(lines), m, <<>>,
                             IF buf # <<>> THEN Append(out, strip(rsplit_head(buf, delim)))
                             ELSE out)
        ELSE IF endswith(rstrip(text), delim)
        THEN statements_loop(Tail(lines), delim, <<>>,
                             IF stmt # <<>> THEN Append(out, stmt) ELSE out)
        ELSE statements_loop(Tail(lines), delim, text, out)

\* dborbit/schema.py: list(statements(sql))
statements(sql) == statements_loop(splitlines(sql, TRUE), <<";">>, <<>>, <<>>)

\* _SINGLE.match(line) for ^\s*(--|#|-{4,}).*$
single_match(line) ==
  startswith(lstrip(line), <<"-", "-">>) \/ startswith(lstrip(line), <<"#">>)

\* The loop of _strip_comments over the lines left
RECURSIVE strip_comments_loop(_, _, _)
strip_comments_loop(lines, in_ml, out) ==
  IF lines = <<>> THEN out
  ELSE
    LET line == Head(lines)
    IN  IF in_ml
        THEN strip_comments_loop(Tail(lines), ~HasSub(line, <<"*", "/">>), out)
        ELSE IF startswith(lstrip(line), <<"/", "*">>)
        THEN strip_comments_loop(Tail(lines), ~HasSub(line, <<"*", "/">>), out)
        ELSE IF single_match(line)
        THEN strip_comments_loop(Tail(lines), FALSE, out)
        ELSE strip_comments_loop(Tail(lines), FALSE, Append(out, line))

\* bootstrap_mariadb.py: _strip_comments(sql)
strip_comments(sql) == join_lines(strip_comments_loop(splitlines(sql, FALSE), FALSE, <<>>))

\* bootstrap_mariadb.py: list(_statements(sql))
mariadb_statements(sql) ==
  statements_loop(splitlines(strip_comments(sql), TRUE), <<";">>, <<>>, <<>>)

\* The fragments the scripts are put together from
Fragment ==
  [ a_comment |-> <<"C", "R", "E", "A", "T", "E", " ", "T", "A", "B", "L", "E", " ", "a", " ", "(", "i", "d", " ", "I", "N", "T", ")", ";", " ", "-", "-", " ", "c", "o", "m", "m", "e", "n", "t", "\n">>,
    b |-> <<"C", "R", "E", "A", "T", "E", " ", "T", "A", "B", "L", "E", " ", "b", " ", "(", "i", "d", " ", "I", "N", "T", ")", ";">>,
    select |-> <<"S", "E", "L", "E", "C", "T", " ", "1", ";", "\n">>,
    two |-> <<"S", "E", "L", "E", "C", "T", " ", "2", ";", " ", "S", "E", "L", "E", "C", "T", " ", "3", ";", "\n">>,
    blank |-> <<"\n">>,
    open |-> <<"/", "*", " ", "c", "\n">>,
    close |-> <<"c", " ", "*", "/", "\n">>,
    inline |-> <<"x", " ", "/", "*", " ", "c", " ", "*", "/", " ", "y", ";", "\n">>,
    line_comment |-> <<"-", "-", " ", "n", "\n">>,
    delim_dollar |-> <<"D", "E", "L", "I", "M", "I", "T", "E", "R", " ", "$", "$", "\n">>,
    delim_semi |-> <<"D", "E", "L", "I", "M", "I", "T", "E", "R", " ", ";", "\n">>,
    body |-> <<"B", "E", "G", "I", "N", " ", "s", ";", " ", "t", ";", " ", "E", "N", "D", "$", "$", "\n">>,
    unterminated |-> <<"S", "E", "L", "E", "C", "T", " ", "5", ";", " ", "S", "E", "L", "E", "C", "T", " ", "6", "\n">> ]

Fragments == { Fragment[f] : f \in DOMAIN Fragment }

\* The scripts: up to MaxLines fragments, one after the other
Scripts ==
  UNION { { Flatten(fs) : fs \in [1..n -> Fragments] } : n \in 1..MaxLines }

\* Both splitters read the script and are iterated to the end.
Split ==
  /\ split.calls = 0
  /\ split' = [ calls |-> 1,
                statements |-> statements(script),
                stripped |-> strip_comments(script),
                mariadb_statements |-> mariadb_statements(script) ]
  /\ UNCHANGED << migrateVars, report, schemaVars, ap, schema_file, database, boot, script >>

InitSplit ==
  /\ MigrateAtRest
  /\ args = [dry_run |-> FALSE, target |-> None, allow_destructive |-> FALSE]
  /\ report = NoReport
  /\ file_map = EmptyMap /\ db_map = EmptyMap /\ sd = NoSchemaDiff
  /\ current = EmptyMap /\ desired = EmptyMap /\ sql_changes = NoChanges
  /\ ap = NoApply
  /\ BootIdle
  /\ script \in Scripts
  /\ split = NoSplit

SpecSplit == InitSplit /\ [][Split]_vars

\* ------------------------------------------------------ scripts that switch the delimiter
\* Routine bodies ending in $$, each with the statement it is
Body ==
  [ one_line |-> [text |-> <<"B", "E", "G", "I", "N", " ", "s", ";", " ", "t", ";", " ", "E", "N", "D", "$", "$", "\n">>, stmts |-> << <<"B", "E", "G", "I", "N", " ", "s", ";", " ", "t", ";", " ", "E", "N", "D">> >>],
    two_lines |-> [text |-> <<"B", "E", "G", "I", "N", " ", "s", ";", "\n", "t", ";", " ", "E", "N", "D", "$", "$", "\n">>, stmts |-> << <<"B", "E", "G", "I", "N", " ", "s", ";", "\n", "t", ";", " ", "E", "N", "D">> >>],
    own_line |-> [text |-> <<"B", "E", "G", "I", "N", " ", "s", ";", " ", "t", ";", " ", "E", "N", "D", "\n", "$", "$", "\n">>, stmts |-> << <<"B", "E", "G", "I", "N", " ", "s", ";", " ", "t", ";", " ", "E", "N", "D">> >>] ]
Bodies == { Body[b] : b \in DOMAIN Body }

\* Lines of statements ending in ";", each with the statements it holds
Line ==
  [ none |-> [text |-> <<>>, stmts |-> <<>>],
    select |-> [text |-> Fragment.select, stmts |-> << <<"S", "E", "L", "E", "C", "T", " ", "1">> >>],
    two |-> [text |-> Fragment.two, stmts |-> << <<"S", "E", "L", "E", "C", "T", " ", "2">>, <<"S", "E", "L", "E", "C", "T", " ", "3">> >>],
    multi |-> [text |-> <<"S", "E", "L", "E", "C", "T", "\n", "4", ";", "\n">>, stmts |-> << <<"S", "E", "L", "E", "C", "T", "\n", "4">> >>] ]
Following == { Line[l] : l \in DOMAIN Line }

\* Statements, DELIMITER $$, a routine body, DELIMITER ;, statements
DelimiterScript(pre, body, f1, f2) ==
  [ text  |-> pre.text \o Fragment.delim_dollar \o body.text \o Fragment.delim_semi \o f1.text \o f2.text,
    stmts |-> pre.stmts \o body.stmts \o f1.stmts \o f2.stmts ]

DelimiterScripts ==
  { DelimiterScript(pre, body, f1, f2) :
      pre \in {Line.none, Line.select}, body \in Bodies, f1 \in Following, f2 \in Following }

InitDelimiter ==
  /\ MigrateAtRest
  /\ args = [dry_run |-> FALSE, target |-> None, allow_destructive |-> FALSE]
  /\ report = NoReport
  /\ file_map = EmptyMap /\ db_map = EmptyMap /\ sd = NoSchemaDiff
  /\ current = EmptyMap /\ desired = EmptyMap /\ sql_changes = NoChanges
  /\ ap = NoApply
  /\ BootIdle
  /\ script \in { d.text : d \in DelimiterScripts }
  /\ split = NoSplit

SpecDelimiter == InitDelimiter /\ [][Split]_vars

\* ------------------------------------------------------ dborbit: normalize
\* Where a greedy \s*, \d* or \w* that begins at i ends: the index of the
\* first character at or after i that is not in class, Len(s) + 1 when
\* there is none
AfterRun(s, i, class) ==
  LET other == { j \in i..Len(s) : s[j] \notin class }
  IN  IF other = {} THEN Len(s) + 1 ELSE CHOOSE j \in other : \A k \in other : j <= k

\* The literal w (in upper case) matches s at i under re.I
MatchWord(s, i, w) == i + Len(w) - 1 <= Len(s) /\ UpperStr(SubSeq(s, i, i + Len(w) - 1)) = w

\* \bIF\s+NOT\s+EXISTS\b with re.I matched at i: the index after the match,
\* 0 when there is no match at i
if_not_exists_end(s, i) ==
  LET a == i + 2
      b == AfterRun(s, a, Whitespace)
      c == b + 3
      d == AfterRun(s, c, Whitespace)
      e == d + 6
  IN  IF /\ (i = 1 \/ s[i - 1] \notin WordChars)
         /\ MatchWord(s, i, <<"I", "F">>)
         /\ b > a /\ MatchWord(s, b, <<"N", "O", "T">>)
         /\ d > c /\ MatchWord(s, d, <<"E", "X", "I", "S", "T", "S">>)
         /\ (e > Len(s) \/ s[e] \notin WordChars)
      THEN e ELSE 0

\* AUTO_INCREMENT=\d+\s* with re.I matched at i, in the same way
auto_increment_end(s, i) ==
  LET a == i + 15
      b == AfterRun(s, a, Digits)
  IN  IF MatchWord(s, i, <<"A", "U", "T", "O", "_", "I", "N", "C", "R", "E", "M", "E", "N", "T", "=">>) /\ b > a THEN AfterRun(s, b, Whitespace) ELSE 0

\* re.sub(pattern, "", s) from index from on, ends[i] being the index after
\* the match of the pattern at i (0: no match): the leftmost matches go
RECURSIVE re_sub_empty(_, _, _)
re_sub_empty(s, ends, from) ==
  LET at == { i \in from..Len(s) : ends[i] # 0 }
  IN  IF at = {} THEN SubSeq(s, from, Len(s))
      ELSE LET i == CHOOSE i \in at : \A j \in at : i <= j
           IN  SubSeq(s, from, i - 1) \o re_sub_empty(s, ends, ends[i])

\* re.sub(r"\s+", " ", s)
collapse_whitespace(s) ==
  LET marked == [ i \in 1..Len(s) |->
                    [ c    |-> IF s[i] \in Whitespace THEN " " ELSE s[i],
                      keep |-> s[i] \notin Whitespace \/ i = 1 \/ s[i - 1] \notin Whitespace ] ]
      kept   == SelectSeq(marked, LAMBDA m : m.keep)
  IN  [ i \in 1..Len(kept) |-> kept[i].c ]

\* normalize(stmt) of dborbit/schema.py
normalize(stmt) ==
  LET s1 == re_sub_empty(stmt, [ i \in 1..Len(stmt) |-> if_not_exists_end(stmt, i) ], 1)
      s2 == re_sub_empty(s1, [ i \in 1..Len(s1) |-> auto_increment_end(s1, i) ], 1)
  IN  LowerStr(strip(collapse_whitespace(s2)))

\* _normalize(stmt) of bootstrap_mariadb.py
mariadb_normalize(stmt) == normalize(strip_comments(stmt))

\* The optional backquote and (\w+) of _CREATE_RE at p: the name, or None
create_name_at(s, p) ==
  LET q == IF p <= Len(s) /\ s[p] = Backquote THEN p + 1 ELSE p
      e == AfterRun(s, q, WordChars)
  IN  IF e > q THEN SubSeq(s, q, e - 1) ELSE None

\* _CREATE_RE matched at i: group 1, or None
create_match(s, i) ==
  LET a == i + 6
      b == AfterRun(s, a, Whitespace)
      c == b + 5
      p == AfterRun(s, c, Whitespace)
      g == if_not_exists_end(s, p)
      q == AfterRun(s, g, Whitespace)
  IN  IF /\ MatchWord(s, i, <<"C", "R", "E", "A", "T", "E">>)
         /\ b > a /\ MatchWord(s, b, <<"T", "A", "B", "L", "E">>)
         /\ p > c
      THEN IF /\ p <= Len(s) /\ MatchWord(s, p, <<"I", "F">>) /\ g # 0 /\ q > g
              /\ create_name_at(s, q) # None
           THEN create_name_at(s, q)
           ELSE create_name_at(s, p)
      ELSE None

\* _CREATE_RE.search(stmt).group(1), None when there is no match
create_search(stmt) ==
  LET at == { i \in 1..Len(stmt) : create_match(stmt, i) # None }
  IN  IF at = {} THEN None
      ELSE create_match(stmt, CHOOSE i \in at : \A j \in at : i <= j)

\* The dict a loop over the statements fills, normed[i] being the normalized
\* text of statement i: a later statement of a table replaces an earlier one
create_table_map(stmts_, normed) ==
  LET named == { i \in 1..Len(stmts_) : create_search(stmts_[i]) # None }
      key(i) == LowerStr(create_search(stmts_[i]))
  IN  [ t \in { key(i) : i \in named } |->
          md5(normed[CHOOSE i \in named : key(i) = t /\ \A j \in named : key(j) = t => j <= i]) ]

\* file_schema_map(sql_path) on the text of the file
file_schema_map_of(text) ==
  LET ss == statements(text)
  IN  create_table_map(ss, [ i \in 1..Len(ss) |-> normalize(ss[i]) ])

\* db_schema_map(cur, db), tbls[t] being what SHOW CREATE TABLE returns for t
db_schema_map_of(tbls) == [ t \in { LowerStr(u) : u \in DOMAIN tbls } |-> md5(normalize(tbls[t])) ]

\* _file_maps(path) and _db_maps(cur, db) of bootstrap_mariadb.py: the checksums
file_maps_of(text) ==
  LET ss == mariadb_statements(text)
  IN  create_table_map(ss, [ i \in 1..Len(ss) |-> mariadb_normalize(ss[i]) ])
db_maps_of(tbls) ==
  [ t \in { LowerStr(u) : u \in DOMAIN tbls \ {META_TABLE} } |-> md5(mariadb_normalize(tbls[t])) ]

\* A CREATE TABLE statement for table a with column col, written with or
\* without IF NOT EXISTS, with sep between its words, with or without sep
\* before the parenthesis, with the AUTO_INCREMENT value auto (<<>>: no such
\* option), as written or in lower case
CreateStatement(col, ine, sep, gap, auto, lower) ==
  LET text == <<"C", "R", "E", "A", "T", "E">> \o sep \o <<"T", "A", "B", "L", "E">>
              \o (IF ine THEN sep \o <<"I", "F">> \o sep \o <<"N", "O", "T">> \o sep \o <<"E", "X", "I", "S", "T", "S">> ELSE <<>>)
              \o sep \o I_a \o (IF gap THEN sep ELSE <<>>)
              \o <<"(", col>> \o sep \o <<"I", "N", "T", ")">>
              \o (IF auto # <<>> THEN sep \o <<"A", "U", "T", "O", "_", "I", "N", "C", "R", "E", "M", "E", "N", "T", "=">> \o auto ELSE <<>>)
              \o sep \o <<"E", "N", "G", "I", "N", "E", "=", "x">>
  IN  IF lower THEN LowerStr(text) ELSE text

\* The white space between the words of a statement
Separators == { <<" ">>, <<" ", " ">>, <<"\n">> }

\* The ways the statement for column col is written
Written(col, seps) ==
  { CreateStatement(col, ine, sep, gap, auto, lower) :
      ine \in BOOLEAN, sep \in seps, gap \in BOOLEAN,
      auto \in { <<>>, <<"2">>, <<"1", "0">> }, lower \in BOOLEAN }

\* What SHOW CREATE TABLE may return for the table with column col: without
\* IF NOT EXISTS, with white space before the parenthesis
Shown(col, seps) ==
  { CreateStatement(col, FALSE, sep, TRUE, auto, FALSE) :
      sep \in seps, auto \in { <<>>, <<"2">>, <<"1", "0">> } }

\* The comparison of the maps fm and dm is made and kept
Compared(fm, dm) ==
  /\ LET res == schema_diff(fm, dm)
     IN  /\ file_map' = fm
         /\ db_map' = dm
         /\ sd' = [calls |-> 1, new |-> res.new, missing |-> res.missing, altered |-> res.altered]
  /\ UNCHANGED << migrateVars, report, current, desired, sql_changes, moreVars >>

\* schema_diff(cur, db, sql_path) of dborbit/schema.py on a schema file and
\* a database that hold a statement each
NormalizedSchemaDiff ==
  /\ sd.calls = 0
  /\ Compared(file_schema_map_of(script), db_schema_map_of(current))

\* The comparison bootstrap of bootstrap_mariadb.py makes of _file_maps and
\* _db_maps on the same
MariadbSchemaDiff ==
  /\ sd.calls = 0
  /\ Compared(file_maps_of(script), db_maps_of(current))

InitNormalize ==
  /\ MigrateAtRest
  /\ args = [dry_run |-> FALSE, target |-> None, allow_destructive |-> FALSE]
  /\ report = NoReport
  /\ file_map = EmptyMap /\ db_map = EmptyMap /\ sd = NoSchemaDiff
  /\ \E col \in Columns : current \in [{I_a} -> Shown(col, { <<" ">>, <<"\n">> })]
  /\ desired = EmptyMap /\ sql_changes = NoChanges
  /\ ap = NoApply
  /\ BootIdle
  /\ \E col \in Columns : \E st \in Written(col, Separators) : script = st \o <<";", "\n">>
  /\ split = NoSplit

NextNormalize == NormalizedSchemaDiff \/ MariadbSchemaDiff

SpecNormalize == InitNormalize /\ [][NextNormalize]_vars

\* diff of dbtool on snapshots that hold one statement each for table a,
\* written on one line and ending in ";"
InitCosmeticDiff ==
  /\ MigrateAtRest
  /\ args \in [dry_run : {FALSE}, target : {None}, allow_destructive : BOOLEAN]
  /\ report = NoReport
  /\ file_map = EmptyMap /\ db_map = EmptyMap /\ sd = NoSchemaDiff
  /\ \E col \in Columns : \E st \in Shown(col, { <<" ">> }) :
       current = [t \in {I_a} |-> st \o <<";">>]
  /\ \E col \in Columns : \E st \in Written(col, { <<" ">>, <<" ", " ">> }) :
       desired = [t \in {I_a} |-> st \o <<";">>]
  /\ sql_changes = NoChanges
  /\ MoreIdle

SpecCosmeticDiff == InitCosmeticDiff /\ [][Diff]_vars

\* ------------------------------------------------------ dbtool: generate
\* The values of generate's description argument
Descriptions == { <<"A", "d", "d", " ", "b">>, <<" ", "g", "e", "n", " ">> }

\* What utcnow().strftime("%Y%m%d%H%M%S") returns
Stamps == { <<"2", "0", "2", "0", "1", "2", "0", "1", "1", "2", "0", "0", "0", "0">> }

\* str.replace(" ", "_")
replace_blanks(s) == [ i \in 1..Len(s) |-> IF s[i] = " " THEN "_" ELSE s[i] ]

\* description.strip().lower().replace(" ", "_")
safe_desc(description) == replace_blanks(LowerStr(Strip(description)))

\* f"V{stamp}__{safe_desc}.sql"
fname(stamp, description) ==
  <<"V">> \o stamp \o <<"_", "_">> \o safe_desc(description) \o <<".", "s", "q", "l">>

\* ";\n\n".join(stmts)
RECURSIVE join_stmts(_)
join_stmts(ss) ==
  IF Len(ss) = 1 THEN ss[1]
  ELSE ss[1] \o <<";", "\n", "\n">> \o join_stmts(Tail(ss))

\* The text generate writes: ";\n\n".join(stmts) + ";\n"
generated_text(ss) == join_stmts(ss) \o <<";", "\n">>

\* path.write_text(...): the file of that name is created or replaced
write_text(d, name, text) ==
  { f \in d : f.name # name } \cup { [name |-> name, sql |-> text] }

\* generate(env, project_dir, description, allow_destructive): the diff of
\* the two snapshots is computed with the flag of the invocation; when it is
\* empty nothing is written and None returned, otherwise the lines are
\* written to a new versioned file of the migration directory.
Generate ==
  /\ sql_changes.calls = 0
  /\ \E o1 \in Orders(DOMAIN desired \ DOMAIN current) :
     \E o2 \in Orders(DOMAIN current \ DOMAIN desired) :
     \E o3 \in Orders(DOMAIN desired \cap DOMAIN current) :
     \E stamp \in Stamps, description \in Descriptions :
       LET changes == diff(current, desired, args.allow_destructive, o1, o2, o3)
       IN  /\ sql_changes' =
                [ calls   |-> 1,
                  lines   |-> changes,
                  created |-> o1,
                  removed |-> o2,
                  altered |-> SelectSeq(o3, LAMBDA t : Differs(current, desired, t)) ]
           /\ dir' = IF changes = <<>> THEN dir
                     ELSE write_text(dir, fname(stamp, description), generated_text(changes))
  /\ UNCHANGED << history, txn, nextRank, lock, invocations, pc, args, files,
                  already_applied, idx, stmts, exc, obs >>
  /\ UNCHANGED << report, file_map, db_map, sd, current, desired, moreVars >>

\* The snapshots of the runs of generate: the tables a and b
GenerateMaps == { m \in DdlMaps : DOMAIN m \subseteq {I_a, I_b} }

\* An empty migration directory, a database and schema files; generate and
\* migrate are run with the same flags.
InitGenerate ==
  /\ MigrateAtRest
  /\ args \in [dry_run : BOOLEAN, target : {None}, allow_destructive : BOOLEAN]
  /\ report = NoReport
  /\ file_map = EmptyMap /\ db_map = EmptyMap /\ sd = NoSchemaDiff
  /\ current \in GenerateMaps
  /\ desired \in GenerateMaps \cap DesiredMaps
  /\ sql_changes = NoChanges
  /\ MoreIdle

NextGenerate == Generate \/ Next

SpecGenerate == InitGenerate /\ [][NextGenerate]_vars

\* ------------------------------------------------------ the claims
Elems(s) == { s[i] : i \in 1..Len(s) }

\* The version component and the kind of a file, read off its name
VersionByName == [n \in {f.name : f \in Discovered(Catalogue)} |-> MigrGroups(n).version]
VersionOf(n) == VersionByName[n]
IsVersioned(n) == Upper(n[1]) = "V"

\* The text of the file of that name in the directory
SqlOf(n) == (CHOOSE f \in dir : f.name = n).sql

\* Run r holds the lock: it acquired it and has not released it.
Holding(r) == obs[r].acquired /\ ~obs[r].released

\* The rows of run r's invocation, committed or not
RowsOf(r) == { w \in history \cup txn[r] : w.inv = obs[r].inv }

\* The two runs were in migrate at the same time.
Concurrent == \E r \in Runs : obs[r].overlap

\* C1: with two migrate runs executing concurrently, every pending versioned
\* file is executed by at most one of the two runs, and no version ends up
\* with two success rows. Stated for runs in which nothing is raised and for
\* files whose version is not empty.
C1_AtMostOneRunApplies ==
  (Concurrent /\ \A r \in Runs : exc[r] = "none") =>
    /\ \A n \in Elems(obs[1].executed) :
         (IsVersioned(n) /\ VersionOf(n) # <<>>) => n \notin Elems(obs[2].executed)
    /\ \A w1, w2 \in history :
         (w1.type = "SQL" /\ w2.type = "SQL" /\ w1.version # <<>>
            /\ w1.script = w2.script) => w1 = w2

\* C2: while one run holds the migration lock, no step of another run
\* executes a migration-file statement or inserts a history row.
C2_NoInterleaving ==
  [][ \A r \in Runs : Holding(r) =>
        \A q \in Runs \ {r} : /\ obs'[q].nstmt = obs[q].nstmt
                              /\ obs'[q].ninsert = obs[q].ninsert ]_vars

\* C2 witness: one run holds the lock and has executed a statement while the
\* other run is waiting in GET_LOCK.
C2_Witness ==
  \E r \in Runs : \E q \in Runs \ {r} :
    Holding(r) /\ obs[r].nstmt > 0 /\ pc[q] = "get_lock" /\ obs[q].nstmt = 0

\* C3: a run that acquired the lock has executed RELEASE_LOCK by the time
\* migrate is left (the session is being closed or migrate is over), on the
\* normal path, in a dry run, after the DROP guard and after a failing statement.
C3_LockReleased ==
  \A r \in Runs : (pc[r] \in {"close", "done"} /\ obs[r].acquired) => obs[r].released

\* C3 witness: a run that acquired the lock was aborted by a failing
\* statement, released the lock and is over.
C3_Witness ==
  \E r \in Runs : pc[r] = "done" /\ exc[r] = "exec" /\ obs[r].acquired /\ obs[r].released

\* C4: a run whose GET_LOCK did not return 1 raises without another attempt:
\* it never holds the lock, applies no file, executes no statement, inserts
\* no history row and issues no RELEASE_LOCK.
C4_LockFailureIsFatal ==
  \A r \in Runs : exc[r] = "lock" =>
    /\ pc[r] \in {"close", "done"}
    /\ ~obs[r].acquired
    /\ ~obs[r].released
    /\ obs[r].entered = <<>>
    /\ obs[r].nstmt = 0
    /\ obs[r].ninsert = 0
    /\ RowsOf(r) = {}

\* C4 witness: a run is over with the lock error while the other run, which
\* held the lock, has applied a file.
C4_Witness ==
  \E r \in Runs : \E q \in Runs \ {r} :
    pc[r] = "done" /\ exc[r] = "lock" /\ obs[q].completed # <<>>

\* The text holds DROP as a word of its own, in any letter case: a maximal
\* run of word characters that spells DROP.
ContainsDropKeyword(sql) ==
  \E i, j \in 1..Len(sql) :
    /\ i <= j
    /\ \A k \in i..j : sql[k] \in WordChars
    /\ (i = 1 \/ sql[i - 1] \notin WordChars)
    /\ (j = Len(sql) \/ sql[j + 1] \notin WordChars)
    /\ UpperStr(Slice(sql, i, j)) = <<"D", "R", "O", "P">>

DropKeywordByText == [t \in {f.sql : f \in Catalogue} |-> ContainsDropKeyword(t)]

\* C5: with allow_destructive false, a file handed to _apply_single whose
\* text contains the keyword DROP aborts the run with an error naming it: none
\* of its statements is executed, no history row is recorded for it, and it is
\* the last file of the run.
C5_DropGuard ==
  \A r \in Runs : \A i \in 1..Len(obs[r].entered) :
    LET n == obs[r].entered[i]
    IN  (~args.allow_destructive /\ DropKeywordByText[SqlOf(n)]) =>
          /\ i = Len(obs[r].entered)
          /\ exc[r] = "drop"
          /\ obs[r].errfile = n
          /\ pc[r] \in {"release", "close", "done"}
          /\ n \notin Elems(obs[r].executed)
          /\ \A w \in RowsOf(r) : w.script # n

\* C5 witness: a run was aborted by the DROP guard at a file that is
\* followed in its list by a file the run never came to.
C5_Witness ==
  \E r \in Runs :
    /\ pc[r] = "done" /\ exc[r] = "drop" /\ ~args.allow_destructive
    /\ \E k \in 1..Len(files[r]) : k > idx[r] /\ files[r][k].name \notin Elems(obs[r].entered)

\* C6: no two success rows of versioned migrations carry the same version,
\* after any sequence of migrate runs (runs that do not overlap).
C6_UniqueVersions ==
  ~Concurrent =>
    \A w1, w2 \in history :
      (w1.type = "SQL" /\ w2.type = "SQL" /\ w1.version = w2.version) => w1 = w2

\* C7: when a run is over, the history table holds exactly one row of that
\* run for each file whose statements all executed successfully in it, and
\* none for any other file.
C7_OneRowPerSuccess ==
  \A r \in Runs : pc[r] = "done" =>
    /\ \A n \in Elems(obs[r].completed) :
         Cardinality({ w \in history : w.inv = obs[r].inv /\ w.script = n }) = 1
    /\ \A w \in history : w.inv = obs[r].inv => w.script \in Elems(obs[r].completed)

\* C8: a migrate run that starts after another run completed without error,
\* over the same directory and with the same flags, executes no versioned file.
C8_Idempotent ==
  \A q \in Runs : \A r \in Runs \ {q} :
    ( /\ pc[q] = "done" /\ exc[q] = "none"
      /\ obs[r].inv > obs[q].inv /\ ~obs[r].overlap ) =>
      \A n \in Elems(obs[r].executed) : ~IsVersioned(n)

\* C9: within one run the versioned files are handed to _apply_single in
\* ascending order of their version strings: a file with a smaller version
\* never comes after a file with a larger one.
C9_AscendingVersions ==
  \A r \in Runs : \A i, j \in 1..Len(obs[r].entered) :
    LET a == obs[r].entered[i]
        b == obs[r].entered[j]
    IN  (i < j /\ IsVersioned(a) /\ IsVersioned(b)) => ~StrLess(VersionOf(b), VersionOf(a))

\* C9 witness: a run has executed two versioned files, the one of the
\* smaller version first.
C9_Witness ==
  \E r \in Runs :
    /\ Len(obs[r].executed) >= 2
    /\ IsVersioned(obs[r].executed[1]) /\ IsVersioned(obs[r].executed[2])
    /\ StrLess(VersionOf(obs[r].executed[1]), VersionOf(obs[r].executed[2]))

\* C10: a run that applies V1__init.sql, V10__add_col.sql and
\* V2__add_index.sql applies them in the order V1, V2, V10.
C10_NumericOrder ==
  \A r \in Runs : Len(obs[r].executed) = 3 => obs[r].executed = <<N_V1, N_V2, N_V10>>

IsRepeatable(n) == Upper(n[1]) = "R"

\* The names in the directory that are migration files
MigrationNames == { f.name : f \in { g \in dir : MigrMatches(g.name) } }

\* How many times x occurs in the sequence s
Count(s, x) == Cardinality({ i \in 1..Len(s) : s[i] = x })

\* C11: within a run no versioned file is handed to _apply_single after a
\* repeatable one, and a run that is over without an error has applied every
\* repeatable file of the directory exactly once (executed it and recorded
\* one row for it unless the run is a dry run), whatever earlier runs recorded.
C11_RepeatablesLast ==
  \A r \in Runs :
    /\ \A i, j \in 1..Len(obs[r].entered) :
         (i < j /\ IsRepeatable(obs[r].entered[i])) => IsRepeatable(obs[r].entered[j])
    /\ (pc[r] = "done" /\ exc[r] = "none") =>
         \A n \in MigrationNames : IsRepeatable(n) =>
           /\ Count(obs[r].entered, n) = 1
           /\ ~obs[r].dry =>
                /\ Count(obs[r].executed, n) = 1
                /\ Count(obs[r].completed, n) = 1
                /\ Cardinality({ w \in history : w.inv = obs[r].inv /\ w.script = n }) = 1

\* C11 witness: a run is over without an error, having applied a versioned
\* file and then a repeatable file that the run before it had applied and
\* recorded already.
C11_Witness ==
  \E q \in Runs : \E r \in Runs \ {q} : \E n \in MigrationNames :
    /\ IsRepeatable(n)
    /\ pc[q] = "done" /\ exc[q] = "none" /\ n \in Elems(obs[q].completed)
    /\ obs[r].inv > obs[q].inv /\ ~obs[r].overlap
    /\ pc[r] = "done" /\ exc[r] = "none"
    /\ Len(obs[r].completed) = 2
    /\ IsVersioned(obs[r].completed[1]) /\ obs[r].completed[2] = n
    /\ \E w \in history : w.inv = obs[q].inv /\ w.script = n

\* C12: when the server rejects a statement of file k, the run is aborted at
\* k: the error is the exception migrate raises and it names k, the run is in
\* or past the finally clause, k is the last file the run came to, and no
\* history row of the run is for k.
C12_FailingStatementAborts ==
  \A r \in Runs : obs[r].failed # <<>> =>
    LET k == obs[r].failed
    IN  /\ exc[r] = "exec"
        /\ obs[r].errfile = k
        /\ pc[r] \in {"release", "close", "done"}
        /\ obs[r].entered[Len(obs[r].entered)] = k
        /\ k \notin Elems(obs[r].completed)
        /\ \A w \in RowsOf(r) : w.script # k

\* C12 witness: a run is over, aborted by a rejected statement of a file that
\* is followed in its list by a file the run never came to.
C12_Witness ==
  \E r \in Runs :
    /\ pc[r] = "done" /\ exc[r] = "exec" /\ obs[r].failed # <<>>
    /\ \E k \in 1..Len(files[r]) : k > idx[r] /\ files[r][k].name \notin Elems(obs[r].entered)

\* C13: a run that starts after another run is over executes no versioned
\* file whose version that run recorded in the history table, whatever the
\* file's text is by then.
C13_NoReexecution ==
  \A q \in Runs : \A r \in Runs \ {q} :
    (pc[q] = "done" /\ obs[r].inv > obs[q].inv /\ ~obs[r].overlap) =>
      \A w \in history : (w.inv = obs[q].inv /\ w.type = "SQL") =>
        \A n \in Elems(obs[r].executed) : IsVersioned(n) => VersionOf(n) # w.version

\* C14: when status is called after a run applied a versioned file (executed
\* its statements and recorded it), no run has applied the file since and the
\* file's text has been changed since, status lists the file under mismatch with the checksum of the text that was
\* applied, and not under pending.
C14_MismatchReported ==
  \A q \in report.over : \A i \in 1..Len(files[q]) :
    LET mf == files[q][i]
    IN  ( /\ IsVersioned(mf.name)
          /\ mf.name \in Elems(obs[q].completed)
          /\ \A r \in Runs : mf.name \in Elems(obs[r].completed) => obs[r].inv <= obs[q].inv
          /\ \E g \in Elems(report.files) : g.name = mf.name /\ g.sql # mf.sql ) =>
          /\ \E e \in Elems(report.mismatch) : e[1].name = mf.name /\ e[2] = mf.checksum
          /\ \A g \in Elems(report.pending) : g.name # mf.name

\* C15: status puts every versioned file it discovered in exactly one of its
\* three lists: applied when a row of the file's version carries the file's
\* checksum, mismatch when rows of its version exist and none carries its
\* checksum, pending when no row of its version exists.
C15_StatusPartition ==
  \A i \in 1..Len(report.files) :
    LET mf  == report.files[i]
        rec == { w \in report.rows : w.version = mf.version }
        inA == \E g \in Elems(report.applied) : g.name = mf.name
        inP == \E g \in Elems(report.pending) : g.name = mf.name
        inM == \E e \in Elems(report.mismatch) : e[1].name = mf.name
    IN  IsVersioned(mf.name) =>
          /\ inA <=> (\E w \in rec : w.checksum = mf.checksum)
          /\ inM <=> (rec # {} /\ \A w \in rec : w.checksum # mf.checksum)
          /\ inP <=> (rec = {})
          /\ Cardinality({ b \in {"A", "P", "M"} :
                             \/ b = "A" /\ inA
                             \/ b = "P" /\ inP
                             \/ b = "M" /\ inM }) = 1

\* a is an initial part of b
IsPrefix(a, b) == Len(a) <= Len(b) /\ SubSeq(b, 1, Len(a)) = a

\* C17: a dry run executes no statement of a migration file and inserts no
\* history row; and the files whose SQL it printed are, in the same order, the
\* files executed by a real run that starts after it with the same target and
\* allow_destructive and the same discovered list: the real run executes an
\* initial part of that sequence, and all of it unless the server rejects one
\* of its statements.
C17_DryRun ==
  /\ \A r \in Runs : obs[r].dry =>
        /\ obs[r].nstmt = 0 /\ obs[r].ninsert = 0
        /\ obs[r].executed = <<>> /\ obs[r].completed = <<>>
        /\ \A w \in history \cup txn[r] : w.inv # obs[r].inv
  /\ \A q \in Runs : \A r \in Runs \ {q} :
        ( /\ obs[q].dry /\ pc[q] = "done"
          /\ ~obs[r].dry /\ pc[r] = "done"
          /\ obs[r].inv > obs[q].inv /\ ~obs[r].overlap
          /\ files[q] = files[r] ) =>
          /\ IsPrefix(obs[r].executed, obs[q].rendered)
          /\ exc[r] # "exec" => obs[r].executed = obs[q].rendered

\* C17 witness: a dry run printed two files and changed nothing, and the real
\* run after it executed these two files and recorded them.
C17_Witness ==
  \E q \in Runs : \E r \in Runs \ {q} :
    /\ obs[q].dry /\ pc[q] = "done" /\ Len(obs[q].rendered) = 2
    /\ ~obs[r].dry /\ pc[r] = "done" /\ obs[r].inv > obs[q].inv /\ ~obs[r].overlap
    /\ exc[r] = "none" /\ obs[r].completed = obs[q].rendered
    /\ Cardinality({ w \in history : w.inv = obs[r].inv }) = 2

\* C16: with a target version T given, no versioned file of a version greater
\* than T is handed to _apply_single, and a run that is over without an error
\* (not a dry run) has applied every versioned file of the directory whose
\* version is at most T and was not among the versions the run read from the
\* history table.
C16_TargetBound ==
  \A r \in Runs : Truthy(args.target) =>
    /\ \A n \in Elems(obs[r].entered) :
         IsVersioned(n) => ~StrGreater(VersionOf(n), args.target)
    /\ (pc[r] = "done" /\ exc[r] = "none" /\ ~obs[r].dry) =>
         \A n \in MigrationNames :
           ( /\ IsVersioned(n)
             /\ ~StrGreater(VersionOf(n), args.target)
             /\ VersionOf(n) \notin already_applied[r] ) =>
             n \in Elems(obs[r].completed)

\* C16 witness: a run with a target is over without an error; it applied the
\* file whose version equals the target and left out a file of the directory
\* whose version is greater.
C16_Witness ==
  \E r \in Runs :
    /\ Truthy(args.target) /\ pc[r] = "done" /\ exc[r] = "none" /\ ~obs[r].dry
    /\ \E n \in Elems(obs[r].completed) : IsVersioned(n) /\ VersionOf(n) = args.target
    /\ \E n \in MigrationNames :
         IsVersioned(n) /\ StrGreater(VersionOf(n), args.target)
                        /\ n \notin Elems(obs[r].entered)

\* The sequence of str is strictly ascending in code-point order.
Ascending(s) == \A i \in 1..(Len(s) - 1) : StrLess(s[i], s[i + 1])

\* C18: schema_diff returns under new the identifiers of the file map only,
\* under missing those of the database map only, under altered those of both
\* maps whose fingerprints differ; the three lists are pairwise disjoint,
\* hold identifiers of the two maps only, and each is in ascending order.
C18_SchemaDiff ==
  sd.calls > 0 =>
    LET F == DOMAIN file_map
        D == DOMAIN db_map
    IN  /\ Elems(sd.new) = F \ D
        /\ Elems(sd.missing) = D \ F
        /\ Elems(sd.altered) = { t \in F \cap D : file_map[t] # db_map[t] }
        /\ Elems(sd.new) \cap Elems(sd.missing) = {}
        /\ Elems(sd.new) \cap Elems(sd.altered) = {}
        /\ Elems(sd.missing) \cap Elems(sd.altered) = {}
        /\ Elems(sd.new) \cup Elems(sd.missing) \cup Elems(sd.altered) \subseteq F \cup D
        /\ Ascending(sd.new) /\ Ascending(sd.missing) /\ Ascending(sd.altered)

\* C18 witness: schema_diff returned the two new tables a and b in this
\* order, and the table ab, of both maps with different fingerprints, as altered.
C18_Witness ==
  /\ sd.calls > 0
  /\ sd.new = <<I_a, I_b>> /\ sd.altered = <<I_ab>> /\ sd.missing = <<>>

\* C19: within each of its three parts (tables created, removed, altered)
\* the list diff returns follows the ascending order of the table identifiers.
C19_DiffOrdered ==
  sql_changes.calls > 0 =>
    /\ Ascending(sql_changes.created)
    /\ Ascending(sql_changes.removed)
    /\ Ascending(sql_changes.altered)

\* The text sub occurs in the text l / the text l starts with sub
Contains(l, sub) ==
  \E i \in 1..Len(l) : i + Len(sub) - 1 <= Len(l) /\ SubSeq(l, i, i + Len(sub) - 1) = sub
StartsWith(l, sub) == Len(sub) <= Len(l) /\ SubSeq(l, 1, Len(sub)) = sub

\* C20: for a table of the live database that the desired schema lacks, diff
\* with allow_destructive false returns one line naming its DROP TABLE
\* statement, which starts with "--", and no line that is the statement; with
\* allow_destructive true it returns the statement DROP TABLE <name>; (the name in backquotes) itself.
C20_GuardedDrop ==
  sql_changes.calls > 0 =>
    \A t \in DOMAIN current \ DOMAIN desired :
      LET drop  == <<"D", "R", "O", "P", " ", "T", "A", "B", "L", "E", " ", Backquote>> \o t \o <<Backquote, ";">>
          about == { i \in 1..Len(sql_changes.lines) : Contains(sql_changes.lines[i], drop) }
      IN  /\ Cardinality(about) = 1
          /\ \A i \in about :
               IF args.allow_destructive
               THEN sql_changes.lines[i] = drop
               ELSE StartsWith(sql_changes.lines[i], <<"-", "-">>)

\* C20 witness: diff was called with allow_destructive false on a database
\* holding a table the desired schema lacks, next to a table that is created.
C20_Witness ==
  /\ sql_changes.calls > 0 /\ ~args.allow_destructive
  /\ DOMAIN current \ DOMAIN desired # {}
  /\ DOMAIN desired \ DOMAIN current # {}
  /\ \E i \in 1..Len(sql_changes.lines) : StartsWith(sql_changes.lines[i], <<"-", "-", " ", "!", "!", "!", " ", "w", "o", "u", "l", "d", " ", "e", "x", "e", "c", "u", "t", "e", " ", Backquote>>)

Names(l, t) == Contains(l, <<Backquote>> \o t \o <<Backquote>>)

\* C22: for a table whose live and desired definitions differ, every line of
\* the diff output that names it starts with "--" (the note, the rendered
\* diff, the manual-ALTER note, which are all there), apply_schema sends no
\* statement naming it to the server, and a call that has only such lines to
\* go through executes nothing and ends without an error.
C22_AlteredIsAdvisory ==
  ap.calls = 1 =>
    /\ \A t \in DOMAIN ap.live \cap DOMAIN desired :
         Strip(ap.live[t]) # Strip(desired[t]) =>
           /\ \A i \in 1..Len(ap.stmts) :
                Names(ap.stmts[i], t) => StartsWith(ap.stmts[i], <<"-", "-">>)
           /\ \E i \in 1..Len(ap.stmts) :
                StartsWith(ap.stmts[i], <<"-", "-", " ", "d", "i", "f", "f", " ", "f", "o", "r">>) /\ Names(ap.stmts[i], t)
           /\ \E i \in 1..Len(ap.stmts) :
                StartsWith(ap.stmts[i], <<"-", "-", " ", "m", "a", "n", "u", "a", "l", " ", "A", "L", "T", "E", "R">>) /\ Names(ap.stmts[i], t)
           /\ \A i \in 1..Len(ap.executed) : ~Names(ap.executed[i], t)
    /\ ( /\ ap.result \in {"applied", "error"}
         /\ DOMAIN ap.live = DOMAIN desired )
         => (ap.executed = <<>> /\ ap.result = "applied")

\* C22 witness: a call on a database that has the tables of the schema
\* files, one of them with a different definition, went through to the end.
C22_Witness ==
  /\ ap.result = "applied"
  /\ DOMAIN ap.live = DOMAIN desired
  /\ \E t \in DOMAIN desired : Strip(ap.live[t]) # Strip(desired[t])

\* The tables the tools keep their own records in
BookkeepingTables == {TRACKING_TABLE, META_TABLE}

\* C23: no bookkeeping table is an entry of the live snapshot schema_diff
\* compares, nor of the new, missing and altered lists it returns, also
\* after an earlier call has created the table in the database.
C23_BookkeepingHidden ==
  /\ DOMAIN db_map \cap BookkeepingTables = {}
  /\ (Elems(sd.new) \cup Elems(sd.missing) \cup Elems(sd.altered)) \cap BookkeepingTables = {}

\* C24: once bootstrap has applied the schema file of a service (imported it
\* to the end and recorded its hash), a schema_diff call for that service,
\* file and database unchanged, returns new, missing and altered all empty.
C24_DiffIdempotent ==
  \A s \in Services :
    (boot.checked = s /\ s \in boot.applied) =>
      (sd.new = <<>> /\ sd.missing = <<>> /\ sd.altered = <<>>)

\* C25: a loop iteration that finds the hash recorded for the schema file
\* equal to the hash of the file sends no statement of the file to the server
\* and computes no comparison; and no file that bootstrap imported to the end
\* and recorded is sent to the server again by a later run (the files do not
\* change).
C25_HashMatchSkips ==
  /\ \A s \in Services :
       (boot.it[s].outcome # "none" /\ boot.it[s].recorded = boot.it[s].file_hash) =>
         (boot.it[s].executed = <<>> /\ ~boot.it[s].diffed)
  /\ boot.rerun = {}

\* C26: when the server rejects a statement of a service's schema file, the
\* iteration reports the failure and the loop goes on: the exception does not
\* leave bootstrap.
C26_FailureIsContained ==
  \A s \in Services :
    boot.it[s].failed => (boot.it[s].outcome = "apply failed" /\ boot.pc # "raised")

\* What the two splitters yielded
Yielded == { split.statements, split.mariadb_statements }

\* C27: of the script "CREATE TABLE a (id INT); -- comment" followed by the
\* line "CREATE TABLE b (id INT);" each splitter yields exactly two
\* statements, the first with CREATE TABLE a and the second with CREATE TABLE
\* b, and the text of the comment is in neither.
C27_TwoStatements ==
  (split.calls = 1 /\ script = Fragment.a_comment \o Fragment.b) =>
    \A out \in Yielded :
      /\ Len(out) = 2
      /\ Contains(out[1], <<"C", "R", "E", "A", "T", "E", " ", "T", "A", "B", "L", "E", " ", "a">>) /\ ~Contains(out[1], <<"C", "R", "E", "A", "T", "E", " ", "T", "A", "B", "L", "E", " ", "b">>)
      /\ Contains(out[2], <<"C", "R", "E", "A", "T", "E", " ", "T", "A", "B", "L", "E", " ", "b">>) /\ ~Contains(out[2], <<"C", "R", "E", "A", "T", "E", " ", "T", "A", "B", "L", "E", " ", "a">>)
      /\ \A i \in 1..Len(out) : ~Contains(out[i], <<"c", "o", "m", "m", "e", "n", "t">>)

\* C28: of a script that sets DELIMITER $$, holds a routine body with
\* semicolons inside that ends in $$, and resets DELIMITER ;, each splitter
\* yields the body as one statement, no DELIMITER line, and every statement
\* ending in ";" as a statement of its own, in source order.
C28_DelimiterSwitch ==
  \A d \in DelimiterScripts :
    (split.calls = 1 /\ script = d.text) => \A out \in Yielded : out = d.stmts

\* C29: no statement a splitter yields is empty after trimming.
C29_NoEmptyStatement ==
  \A out \in Yielded : \A i \in 1..Len(out) :
    \E j \in 1..Len(out[i]) : out[i][j] \notin {" ", "\n"}

\* The block comments of text s from position p on: pairs <<o, c>> with "/*"
\* at o and the first "*/" after it at c; c = 0 when the comment is not closed.
RECURSIVE BlockComments(_, _)
BlockComments(s, p) ==
  LET opens == { o \in p..(Len(s) - 1) : s[o] = "/" /\ s[o + 1] = "*" }
  IN  IF opens = {} THEN {}
      ELSE LET o      == CHOOSE o \in opens : \A q \in opens : o <= q
               closes == { c \in (o + 2)..(Len(s) - 1) : s[c] = "*" /\ s[c + 1] = "/" }
           IN  IF closes = {} THEN { <<o, 0>> }
               ELSE LET c == CHOOSE c \in closes : \A q \in closes : c <= q
                    IN  { <<o, c>> } \cup BlockComments(s, c + 2)

\* Where line k of the lines ls begins in the text they were split from
RECURSIVE LineStart(_, _)
LineStart(ls, k) == IF k = 1 THEN 1 ELSE LineStart(ls, k - 1) + Len(ls[k - 1]) + 1

\* The lines of the script, as they are and without the line ends
ScriptLines == splitlines(script, FALSE)

\* Line k of the script has no part in a block comment and is no comment line.
OutsideComments(k) ==
  LET from == LineStart(ScriptLines, k)
      to   == from + Len(ScriptLines[k]) - 1
  IN  /\ \A bc \in BlockComments(script, 1) :
           to < bc[1] \/ (bc[2] # 0 /\ from > bc[2] + 1)
      /\ \E j \in 1..Len(ScriptLines[k]) : ScriptLines[k][j] \notin {" ", "\n"}
      /\ ~StartsWith(lstrip(ScriptLines[k]), <<"-", "-">>)

\* C30: no block comment of the script, from its "/*" to its "*/", is part of
\* a statement _statements yields, and every line of the script that has no
\* part in a comment is a line of what _strip_comments returns.
C30_BlockCommentsStripped ==
  split.calls = 1 =>
    /\ \A bc \in BlockComments(script, 1) :
         bc[2] # 0 =>
           \A i \in 1..Len(split.mariadb_statements) :
             ~Contains(split.mariadb_statements[i], SubSeq(script, bc[1], bc[2] + 1))
    /\ \A k \in 1..Len(ScriptLines) :
         OutsideComments(k) =>
           \E j \in 1..Len(splitlines(split.stripped, FALSE)) :
             splitlines(split.stripped, FALSE)[j] = ScriptLines[k]

\* The tables whose statement in the schema file and in the database are
\* the same statement (the same column) written in two ways
SameDefinition ==
  { t \in DOMAIN current :
      \E col \in Columns : \E st \in Written(col, Separators) :
        current[t] \in Shown(col, Separators) /\ script = st \o <<";", "\n">> }

\* C31: two CREATE TABLE statements that differ only in an IF NOT EXISTS
\* clause, white space, letter case or an AUTO_INCREMENT=<N> value have the
\* same normalized text, hence the same fingerprint, and schema_diff does
\* not report the table as altered.
C31_CosmeticsIgnored ==
  sd.calls = 1 =>
    \A t \in SameDefinition :
      /\ t \in DOMAIN file_map /\ file_map[t] = db_map[t]
      /\ sd.altered = <<>>

\* C32: when a run has executed RELEASE_LOCK, every history row it inserted
\* is committed (none is left in its open transaction), so that a run that
\* gets the lock afterwards reads it.
C32_CommitBeforeRelease ==
  \A r \in Runs : obs[r].released =>
    /\ txn[r] = {}
    /\ Cardinality({ w \in history : w.inv = obs[r].inv }) = obs[r].ninsert

\* C33: when a run ended at the DROP guard or at a failing statement, the
\* history table holds the success row of every file the run had applied
\* before, and a later run executes none of those versioned files again.
C33_FileIsUnitOfWork ==
  \A r \in Runs : (pc[r] = "done" /\ exc[r] \in {"drop", "exec"}) =>
    /\ \A n \in Elems(obs[r].completed) :
         \E w \in history : w.inv = obs[r].inv /\ w.script = n
    /\ \A q \in Runs \ {r} : (obs[q].inv > obs[r].inv /\ ~obs[q].overlap) =>
         \A n \in Elems(obs[r].completed) : IsVersioned(n) => n \notin Elems(obs[q].executed)

\* C34: diff of dbtool reports a table of both snapshots as altered exactly
\* when the fingerprints of the normalized definitions differ.
C34_AlteredByFingerprint ==
  sql_changes.calls = 1 =>
    \A t \in DOMAIN current \cap DOMAIN desired :
      t \in Elems(sql_changes.altered) <=> md5(normalize(current[t])) # md5(normalize(desired[t]))

\* What C36 says of a step, for service s
TrackingStep(s) ==
  LET ran == boot.pc = "loop" /\ Head(boot.todo) = s
      it  == boot'.it[s]
  IN  /\ database'[s].row # database[s].row =>
           /\ ran
           /\ database'[s].row = compute_schema_file_hash(schema_file[s])
           /\ \/ /\ it.outcome \in {"imported", "applied"}
                 /\ ~it.failed
                 /\ it.executed = FileStatements(schema_file[s])
              \/ /\ it.outcome = "identical"
                 /\ it.executed = <<>>
                 /\ sd'.new = <<>> /\ sd'.missing = <<>> /\ sd'.altered = <<>>
      /\ (ran /\ it.outcome \in {"skipped by user", "raised", "apply failed"}) =>
           /\ database'[s].row = database[s].row
           /\ database'[s].rows = database[s].rows

\* C36: the hash recorded for a schema path changes only in a loop iteration
\* in which import_schema ran to completion or schema_diff found no
\* difference, and then to the hash of the file; an iteration the operator
\* declined or whose import raised leaves the row as it was; the tracking
\* table never holds more than one row for a path.
C36_TrackingRow ==
  /\ [][\A s \in Services : TrackingStep(s)]_vars
  /\ [](\A s \in Services : database[s].rows <= 1)

\* C36 witness: an iteration has replaced the hash recorded by an earlier
\* run by the hash of the edited file, one row being there, and another
\* iteration that was declined or failed has left its row as it was.
C36_Witness ==
  /\ \E s \in Services :
       /\ boot.it[s].stored
       /\ boot.it[s].recorded \notin {None, <<"unread">>}
       /\ database[s].row # boot.it[s].recorded
       /\ database[s].rows = 1
  /\ \E q \in Services :
       /\ boot.it[q].outcome \in {"skipped by user", "apply failed"}
       /\ database[q].row = boot.it[q].recorded

\* C37: an iteration of dborbit's bootstrap that began on a database without
\* tables and went past the hash comparison took the initial-import path
\* (the prompt, then import_schema): it computed no comparison of file and
\* database.
C37_EmptyDatabaseImports ==
  \A s \in Services :
    (boot.it[s].empty /\ boot.it[s].outcome \notin {"none", "no schema", "hash matched"}) =>
      /\ ~boot.it[s].diffed
      /\ boot.it[s].outcome \in {"imported", "skipped by user", "raised"}

\* The text s without white space and without the characters of the
\* delimiters ";" and "$$"
Content(s) == SelectSeq(s, LAMBDA c : c \notin {" ", "\n", ";", "$"})

\* The script has no comment
CommentFree ==
  /\ ~Contains(script, <<"-", "-">>) /\ ~Contains(script, <<"#">>)
  /\ ~Contains(script, <<"/", "*">>) /\ ~Contains(script, <<"*", "/">>)

\* The lines of the script that are no DELIMITER directive, one after the other
SqlText ==
  Flatten(SelectSeq(ScriptLines,
                    LAMBDA l : ~StartsWith(UpperStr(lstrip(l)), <<"D", "E", "L", "I", "M", "I", "T", "E", "R">>)))

\* C35: for a script without comments, the statements a splitter yields, one
\* after the other, are the text of the script in source order, the
\* DELIMITER lines, the delimiters and white space left aside: nothing is
\* missing and nothing is there twice.
C35_NoTextLost ==
  (split.calls = 1 /\ CommentFree) =>
    \A out \in Yielded : Content(Flatten(out)) = Content(SqlText)

\* The files generate wrote: the directory was empty before
GeneratedFiles == IF sql_changes.calls = 1 THEN dir ELSE {}

\* C38: when generate and migrate are both run without allow_destructive,
\* no run of migrate is stopped by the DROP guard at the file generate wrote.
C38_GeneratedFileApplies ==
  ~args.allow_destructive =>
    \A r \in Runs : \A f \in GeneratedFiles :
      ~(exc[r] = "drop" /\ obs[r].errfile = f.name)

====
